---- MODULE Spec2Model ----
(***************************************************************************)
(* A model of tex2typst-rs: the tokenizers, the macro registry and         *)
(* expander, the recursive-descent parser, the tree converter, the Typst   *)
(* writer and the entry points of lib.rs.                                  *)
(*                                                                         *)
(* Strings are sequences of one-character strings; positions are the       *)
(* 0-based positions of the source (At(s, i) is s[i], Slice(s, a, b) is     *)
(* s[a..b]).  A fallible function returns a record [k, v, msg]:            *)
(*   k = "Ok"    the function returned Ok(v)                               *)
(*   k = "Err"   the function returned Err(msg)                            *)
(*   k = "Panic" the function aborted (panic!, a failed assert, an index   *)
(*               out of bounds)                                            *)
(* msg is a tuple: the format string followed by its arguments.            *)
(***************************************************************************)
EXTENDS Integers, Sequences, FiniteSets, TLC

(***************************************************************************)
(* Characters and strings                                                  *)
(***************************************************************************)
LowerLetters ==
  {"a","b","c","d","e","f","g","h","i","j","k","l","m",
   "n","o","p","q","r","s","t","u","v","w","x","y","z"}

UpperLetters ==
  {"A","B","C","D","E","F","G","H","I","J","K","L","M",
   "N","O","P","Q","R","S","T","U","V","W","X","Y","Z"}

\* the non-ASCII characters of the model: one alphabetic character
NonAscii == {"é"}

Digits == {"0","1","2","3","4","5","6","7","8","9"}

is_alphabetic(c) == c \in LowerLetters \cup UpperLetters \cup NonAscii

is_digit(c) == c \in Digits

is_alphanumeric(c) == is_alphabetic(c) \/ is_digit(c)

is_ascii_uppercase(c) == c \in UpperLetters

\* char::is_whitespace, for the characters of the model
is_whitespace(c) == c \in {" ", "\n", "\t", "\r"}

\* the number of bytes of a character in UTF-8
Utf8Len(c) == IF c \in NonAscii THEN 2 ELSE 1

RECURSIVE ByteLen(_)
ByteLen(s) == IF s = <<>> THEN 0 ELSE Utf8Len(Head(s)) + ByteLen(Tail(s))

At(s, i) == s[i + 1]

Range(s) == {s[i] : i \in 1..Len(s)}

Slice(s, a, b) == SubSeq(s, a + 1, b)

SliceFrom(s, a) == SubSeq(s, a + 1, Len(s))

StartsWithAt(s, i, p) ==
  /\ i + Len(p) <= Len(s)
  /\ \A j \in 1..Len(p) : s[i + j] = p[j]

starts_with(s, p) == StartsWithAt(s, 0, p)

ends_with(s, p) == Len(s) >= Len(p) /\ StartsWithAt(s, Len(s) - Len(p), p)

\* the first position >= pos whose character is not in S (Len(s) if none)
RunEnd(s, pos, S) ==
  CHOOSE i \in pos..Len(s) :
    /\ i = Len(s) \/ At(s, i) \notin S
    /\ \A j \in pos..(i - 1) : At(s, j) \in S

\* the first position >= pos whose character is in S (Len(s) if none)
RunEndNot(s, pos, S) ==
  CHOOSE i \in pos..Len(s) :
    /\ i = Len(s) \/ At(s, i) \in S
    /\ \A j \in pos..(i - 1) : At(s, j) \notin S

\* the first position >= pos at which p occurs in s, -1 if none
FindFrom(s, pos, p) ==
  IF \E i \in pos..Len(s) : StartsWithAt(s, i, p)
  THEN CHOOSE i \in pos..Len(s) :
         StartsWithAt(s, i, p) /\ \A j \in pos..(i - 1) : ~StartsWithAt(s, j, p)
  ELSE -1

\* str::replace: every non-overlapping occurrence of from, left to right
RECURSIVE ReplaceFrom(_, _, _, _)
ReplaceFrom(s, pos, from, to) ==
  LET i == FindFrom(s, pos, from) IN
  IF from = <<>> \/ i = -1 THEN SliceFrom(s, pos)
  ELSE Slice(s, pos, i) \o to \o ReplaceFrom(s, i + Len(from), from, to)

Replace(s, from, to) == ReplaceFrom(s, 0, from, to)

RECURSIVE Concat(_)
Concat(ss) == IF ss = <<>> THEN <<>> ELSE Head(ss) \o Concat(Tail(ss))

\* str::trim
trim(s) ==
  LET a == RunEnd(s, 0, {" ", "\n", "\t", "\r"}) IN
  IF a = Len(s) THEN <<>>
  ELSE LET b == CHOOSE j \in (a + 1)..Len(s) :
                  /\ ~is_whitespace(s[j])
                  /\ \A k \in (j + 1)..Len(s) : is_whitespace(s[k])
       IN Slice(s, a, b)

(***************************************************************************)
(* Results                                                                 *)
(***************************************************************************)
Ok(v) == [k |-> "Ok", v |-> v, msg |-> <<>>]

Err(msg) == [k |-> "Err", v |-> <<>>, msg |-> msg]

Panic(msg) == [k |-> "Panic", v |-> <<>>, msg |-> msg]

IsOk(r) == r.k = "Ok"

(***************************************************************************)
(* Tokens (definitions.rs, TexToken)                                       *)
(***************************************************************************)
TexToken(t, v) == [t |-> t, v |-> v]

\* the command names, as character sequences
BS == "\\"

cmd_text == <<BS, "t", "e", "x", "t">>

cmd_operatorname == <<BS, "o", "p", "e", "r", "a", "t", "o", "r", "n", "a", "m", "e">>

cmd_begin == <<BS, "b", "e", "g", "i", "n">>

cmd_end == <<BS, "e", "n", "d">>

cmd_left == <<BS, "l", "e", "f", "t">>

cmd_right == <<BS, "r", "i", "g", "h", "t">>

cmd_sqrt == <<BS, "s", "q", "r", "t">>

cmd_frac == <<BS, "f", "r", "a", "c">>

NOBREAK == <<"s","p","a","c","e",".","n","o","b","r","e","a","k">>

(***************************************************************************)
(* tex_tokenizer.rs                                                        *)
(***************************************************************************)
\* eat_command_name: the maximal alphabetic run starting at start
eat_command_name(latex, start) ==
  Slice(latex, start, RunEnd(latex, start, LowerLetters \cup UpperLetters \cup NonAscii))

\* find_closing_curly_bracket_char: Ok(position of the matching brace) or Err
RECURSIVE find_closing_curly_bracket_char_loop(_, _, _)
find_closing_curly_bracket_char_loop(latex, pos, count) ==
  IF count <= 0 THEN Ok(pos - 1)
  ELSE IF pos >= Len(latex) THEN Err(<<"Unmatched curly brackets">>)
  ELSE IF pos + 1 < Len(latex)
          /\ (StartsWithAt(latex, pos, <<BS, "{">>) \/ StartsWithAt(latex, pos, <<BS, "}">>))
       THEN find_closing_curly_bracket_char_loop(latex, pos + 2, count)
  ELSE find_closing_curly_bracket_char_loop(latex, pos + 1,
         CASE At(latex, pos) = "{" -> count + 1
           [] At(latex, pos) = "}" -> count - 1
           [] OTHER -> count)

find_closing_curly_bracket_char(latex, start) ==
  find_closing_curly_bracket_char_loop(latex, start + 1, 1)

ElementPunct ==
  {"+","-","*","/","=","'","<",">","!",".",",",";",":","?","(",")","[","]","|"}

\* One turn of the scanning match of tokenize: the token at pos and the position
\* after it.  charIndexed is TRUE for tex_tokenizer.rs, which indexes a
\* Vec<char> and still advances by the byte length of the token's value, and
\* FALSE for tex_parser.rs, which indexes the bytes of a &str.
next_token(latex, pos, charIndexed) ==
  LET c == At(latex, pos)
      adv(value) == IF charIndexed THEN ByteLen(value) ELSE Len(value)
      tok(t, v, p) == [k |-> "Ok", v |-> TexToken(t, v), msg |-> <<>>, pos |-> p]
      \* a byte-indexed scan that steps into the middle of a multi-byte character
      \* slices the &str off a character boundary, which aborts
      off_boundary ==
        /\ ~charIndexed
        /\ \/ c = "%" /\ \E j \in (pos + 1)..(RunEndNot(latex, pos + 1, {"\n"}) - 1) :
                         At(latex, j) \in NonAscii
           \/ c = BS /\ pos + 1 < Len(latex) /\ At(latex, pos + 1) \in NonAscii
           \/ c = BS /\ pos + 1 < Len(latex)
                /\ At(latex, pos + 1) \notin {BS, ",", "{", "}", "%", "$", "&", "#", "_", "|"}
                /\ \E ch \in Range(eat_command_name(latex, pos + 1)) : ch \in NonAscii
  IN
  CASE off_boundary ->
         [k |-> "Panic", v |-> TexToken("Unknown", <<>>),
          msg |-> <<"byte index is not a char boundary">>, pos |-> pos]
    [] c = "%" ->
         LET new_pos == RunEndNot(latex, pos + 1, {"\n"}) IN
         tok("Comment", Slice(latex, pos + 1, new_pos), new_pos)
    [] c \in {"{", "}", "_", "^", "&"} -> tok("Control", <<c>>, pos + 1)
    [] c = "\n" -> tok("Newline", <<"\n">>, pos + 1)
    [] c = "\r" ->
         IF pos + 1 < Len(latex) /\ At(latex, pos + 1) = "\n"
         THEN tok("Newline", <<"\n">>, pos + 2)
         ELSE tok("Newline", <<"\n">>, pos + 1)
    [] c = " " ->
         LET new_pos == RunEnd(latex, pos, {" "}) IN
         tok("Space", Slice(latex, pos, new_pos), new_pos)
    [] c = BS ->
         IF pos + 1 >= Len(latex)
         THEN [k |-> "Err", v |-> TexToken("Unknown", <<>>),
               msg |-> <<"Expecting command name after \\">>, pos |-> pos]
         ELSE LET two == Slice(latex, pos, pos + 2) IN
              IF two \in {<<BS, BS>>, <<BS, ",">>}
              THEN tok("Control", two, pos + 2)
              ELSE IF At(latex, pos + 1) \in {"{", "}", "%", "$", "&", "#", "_", "|"}
              THEN tok("Element", two, pos + 2)
              ELSE LET command == <<BS>> \o eat_command_name(latex, pos + 1) IN
                   tok("Command", command, pos + adv(command))
    [] OTHER ->
         IF is_digit(c)
         THEN LET new_pos == RunEnd(latex, pos, Digits) IN
              tok("Element", Slice(latex, pos, new_pos), pos + (new_pos - pos))
         ELSE IF is_alphabetic(c) THEN tok("Element", <<c>>, pos + adv(<<c>>))
         ELSE IF c \in ElementPunct THEN tok("Element", <<c>>, pos + 1)
         ELSE IF c = "~" THEN tok("NoBreakSpace", NOBREAK, pos + Len(NOBREAK))
         ELSE tok("Unknown", <<c>>, pos + adv(<<c>>))

\* the unescaping of the raw contents of a \text block
unescape_text(text_inside) ==
  LET r1 == Replace(text_inside, <<BS, "{">>, <<"{">>)
      r2 == Replace(r1, <<BS, "}">>, <<"}">>)
      r3 == Replace(r2, <<BS, BS>>, <<BS>>)
      r4 == Replace(r3, <<BS, "$">>, <<"$">>)
      r5 == Replace(r4, <<BS, "&">>, <<"&">>)
      r6 == Replace(r5, <<BS, "#">>, <<"#">>)
      r7 == Replace(r6, <<BS, "_">>, <<"_">>)
  IN Replace(r7, <<BS, "%">>, <<"%">>)

TextCommands == {cmd_text, cmd_operatorname, cmd_begin, cmd_end}

\* One turn of the loop of tokenize at pos: the tokens it pushes and the
\* position it leaves, or the Err it returns
tokenize_turn(latex, pos) ==
  LET n == next_token(latex, pos, TRUE)
      turn(k, v, msg, p) == [k |-> k, v |-> v, msg |-> msg, pos |-> p]
      \* the {...} block after \text, \operatorname, \begin, \end
      brace == IF n.pos >= Len(latex) \/ At(latex, n.pos) # "{"
               THEN (IF n.pos > Len(latex) THEN -2
                     ELSE FindFrom(latex, n.pos, <<"{">>))
               ELSE n.pos
      closing == find_closing_curly_bracket_char(latex, brace)
  IN
  IF n.k # "Ok" THEN turn("Err", <<>>, n.msg, pos)
  ELSE IF ~(n.v.t = "Command" /\ n.v.v \in TextCommands) THEN turn("Ok", <<n.v>>, <<>>, n.pos)
  ELSE IF brace = -2 THEN turn("Panic", <<>>, <<"range start index out of range">>, pos)
  ELSE IF brace = -1 THEN turn("Err", <<>>, <<"No content for {} command", n.v.v>>, pos)
  ELSE IF closing.k # "Ok" THEN turn("Err", <<>>, closing.msg, pos)
  ELSE turn("Ok",
            << n.v,
               TexToken("Control", <<"{">>),
               TexToken("Text", unescape_text(Slice(latex, brace + 1, closing.v))),
               TexToken("Control", <<"}">>) >>,
            <<>>, closing.v + 1)

RECURSIVE tokenize_loop(_, _, _)
\* the rest of the loop after the turn t
tokenize_after(latex, tokens, t) ==
  IF t.k # "Ok" THEN [k |-> t.k, v |-> <<>>, msg |-> t.msg]
  ELSE tokenize_loop(latex, t.pos, tokens \o t.v)

tokenize_loop(latex, pos, tokens) ==
  IF pos >= Len(latex) THEN Ok(tokens)
  ELSE tokenize_after(latex, tokens, tokenize_turn(latex, pos))

tokenize(latex) == tokenize_loop(latex, 0, <<>>)

(***************************************************************************)
(* tex_parser.rs: the tokenizer of parse_tex                               *)
(***************************************************************************)
RECURSIVE parser_tokenize_loop(_, _, _)
parser_tokenize_loop(latex, pos, tokens) ==
  IF pos >= Len(latex) THEN Ok(tokens)
  ELSE
    LET n == next_token(latex, pos, FALSE) IN
    IF n.k # "Ok" THEN [k |-> n.k, v |-> <<>>, msg |-> n.msg]
    ELSE IF ~(n.v.t = "Command" /\ n.v.v \in TextCommands)
    THEN parser_tokenize_loop(latex, n.pos, Append(tokens, n.v))
    ELSE
      IF n.pos >= Len(latex) \/ At(latex, n.pos) # "{"
      THEN Panic(<<"No content for {} command", n.v.v>>)
      ELSE
        LET closing == find_closing_curly_bracket_char(latex, n.pos) IN
        IF closing.k # "Ok" THEN Err(closing.msg)
        ELSE parser_tokenize_loop(latex, closing.v + 1,
               tokens \o << n.v,
                            TexToken("Control", <<"{">>),
                            TexToken("Text", unescape_text(Slice(latex, n.pos + 1, closing.v))),
                            TexToken("Control", <<"}">>) >>)

parser_tokenize(latex) == parser_tokenize_loop(latex, 0, <<>>)

(***************************************************************************)
(* tex_parser.rs: nodes and helpers                                        *)
(***************************************************************************)
\* Option<T>: None is <<>>, Some(x) is <<x>>
None == <<>>

Some(x) == <<x>>

NoData == [dk |-> "None"]

\* TexNode::new(node_type, content, args, data); args None is <<>>
TexNode(nt, content, args, data) == [nt |-> nt, content |-> content, args |-> args, data |-> data]

EMPTY_NODE == TexNode("Empty", <<>>, <<>>, NoData)

LEFT_CURLY_BRACKET == TexToken("Control", <<"{">>)

RIGHT_CURLY_BRACKET == TexToken("Control", <<"}">>)

LEFT_SQUARE_BRACKET == TexToken("Element", <<"[">>)

RIGHT_SQUARE_BRACKET == TexToken("Element", <<"]">>)

LEFT_COMMAND == TexToken("Command", cmd_left)

RIGHT_COMMAND == TexToken("Command", cmd_right)

BEGIN_COMMAND == TexToken("Command", cmd_begin)

END_COMMAND == TexToken("Command", cmd_end)

SUB_SYMBOL == TexToken("Control", <<"_">>)

SUP_SYMBOL == TexToken("Control", <<"^">>)

PRIME == TexToken("Element", <<"'">>)

PARSER_UNARY_COMMANDS ==
  {<<"s", "q", "r", "t">>,
   <<"t", "e", "x", "t">>,
   <<"b", "a", "r">>,
   <<"b", "o", "l", "d">>,
   <<"b", "o", "l", "d", "s", "y", "m", "b", "o", "l">>,
   <<"d", "d", "o", "t">>,
   <<"d", "o", "t">>,
   <<"h", "a", "t">>,
   <<"m", "a", "t", "h", "b", "b">>,
   <<"m", "a", "t", "h", "b", "f">>,
   <<"m", "a", "t", "h", "c", "a", "l">>,
   <<"m", "a", "t", "h", "f", "r", "a", "k">>,
   <<"m", "a", "t", "h", "i", "t">>,
   <<"m", "a", "t", "h", "r", "m">>,
   <<"m", "a", "t", "h", "s", "c", "r">>,
   <<"m", "a", "t", "h", "s", "f">>,
   <<"m", "a", "t", "h", "t", "t">>,
   <<"o", "p", "e", "r", "a", "t", "o", "r", "n", "a", "m", "e">>,
   <<"o", "v", "e", "r", "b", "r", "a", "c", "e">>,
   <<"o", "v", "e", "r", "l", "i", "n", "e">>,
   <<"p", "m", "b">>,
   <<"r", "m">>,
   <<"t", "i", "l", "d", "e">>,
   <<"u", "n", "d", "e", "r", "b", "r", "a", "c", "e">>,
   <<"u", "n", "d", "e", "r", "l", "i", "n", "e">>,
   <<"v", "e", "c">>,
   <<"o", "v", "e", "r", "r", "i", "g", "h", "t", "a", "r", "r", "o", "w">>,
   <<"w", "i", "d", "e", "h", "a", "t">>,
   <<"w", "i", "d", "e", "t", "i", "l", "d", "e">>}

PARSER_BINARY_COMMANDS ==
  {<<"f", "r", "a", "c">>,
   <<"t", "f", "r", "a", "c">>,
   <<"b", "i", "n", "o", "m">>,
   <<"d", "b", "i", "n", "o", "m">>,
   <<"d", "f", "r", "a", "c">>,
   <<"t", "b", "i", "n", "o", "m">>,
   <<"o", "v", "e", "r", "s", "e", "t">>}

\* map.rs is not part of the sources: the entries the tests and the
\* specification name
SYMBOL_MAP ==
  {<<<<"p", "a", "r", "t", "i", "a", "l">>, <<"d", "i", "f", "f">>>>,
   <<<<"p", "m">>, <<"p", "l", "u", "s", ".", "m", "i", "n", "u", "s">>>>,
   <<<<"i", "n", "t">>, <<"i", "n", "t", "e", "g", "r", "a", "l">>>>,
   <<<<"s", "u", "m">>, <<"s", "u", "m">>>>,
   <<<<"l", "f", "l", "o", "o", "r">>, <<"f", "l", "o", "o", "r", ".", "l">>>>,
   <<<<"r", "f", "l", "o", "o", "r">>, <<"f", "l", "o", "o", "r", ".", "r">>>>,
   <<<<"l", "c", "e", "i", "l">>, <<"c", "e", "i", "l", ".", "l">>>>,
   <<<<"r", "c", "e", "i", "l">>, <<"c", "e", "i", "l", ".", "r">>>>,
   <<<<"a", "l", "p", "h", "a">>, <<"a", "l", "p", "h", "a">>>>,
   <<<<"l", "o", "n", "g", "r", "i", "g", "h", "t", "a", "r", "r", "o", "w">>, <<"a", "r", "r", "o", "w", ".", "r", ".", "l", "o", "n", "g">>>>,
   <<<<"L", "o", "n", "g", "r", "i", "g", "h", "t", "a", "r", "r", "o", "w">>, <<"a", "r", "r", "o", "w", ".", "r", ".", "d", "o", "u", "b", "l", "e", ".", "l", "o", "n", "g">>>>,
   <<<<"s", "q", "u", "a", "r", "e">>, <<"s", "q", "u", "a", "r", "e">>>>,
   <<<<"i", "n", "f", "t", "y">>, <<"i", "n", "f", "i", "n", "i", "t", "y">>>>}

get_command_param_num(command) ==
  IF command \in PARSER_UNARY_COMMANDS THEN 1
  ELSE IF command \in PARSER_BINARY_COMMANDS THEN 2
  ELSE 0

symbol_map_contains_key(name) == \E e \in SYMBOL_MAP : e[1] = name

symbol_map_get(name) == (CHOOSE e \in SYMBOL_MAP : e[1] = name)[2]

\* the number of Space/Newline tokens from start on
eat_whitespaces(tokens, start) ==
  IF start >= Len(tokens) THEN 0 ELSE
  LET ws == {i \in start..Len(tokens) :
               \A j \in start..(i - 1) : At(tokens, j).t \in {"Space", "Newline"}}
  IN (CHOOSE i \in ws : \A j \in ws : j <= i) - start

PARENTHESIS_ELEMENTS ==
  {<<"(">>, <<")">>, <<"[">>, <<"]">>, <<"|">>, <<BS, "{">>, <<BS, "}">>, <<".">>}

PARENTHESIS_COMMANDS ==
  {<<"l","f","l","o","o","r">>, <<"r","f","l","o","o","r">>, <<"l","c","e","i","l">>,
   <<"r","c","e","i","l">>, <<"l","a","n","g","l","e">>, <<"r","a","n","g","l","e">>}

\* Some(token) when the token at start is a delimiter, else None
eat_parenthesis(tokens, start) ==
  LET first_token == At(tokens, start) IN
  IF first_token.t = "Element" /\ first_token.v \in PARENTHESIS_ELEMENTS
  THEN Some(first_token)
  ELSE IF first_token.t = "Command" /\ Tail(first_token.v) \in PARENTHESIS_COMMANDS
  THEN Some(first_token)
  ELSE None

\* the number of prime tokens from start on
eat_primes(tokens, start) ==
  IF start >= Len(tokens) THEN 0 ELSE
  LET ps == {i \in start..Len(tokens) : \A j \in start..(i - 1) : At(tokens, j) = PRIME}
  IN (CHOOSE i \in ps : \A j \in ps : j <= i) - start

\* find_closing_match: the position of the token closing the one at start, -1 if none
RECURSIVE find_closing_match_loop(_, _, _, _, _)
find_closing_match_loop(tokens, pos, count, left_token, right_token) ==
  IF count <= 0 THEN pos - 1
  ELSE IF pos >= Len(tokens) THEN -1
  ELSE find_closing_match_loop(tokens, pos + 1,
         IF At(tokens, pos) = left_token THEN count + 1
         ELSE IF At(tokens, pos) = right_token THEN count - 1
         ELSE count,
         left_token, right_token)

\* find_closing_match without the depth count: the first right_token after start
find_closing_match_first(tokens, start, left_token, right_token) ==
  LET S == {i \in (start + 1)..(Len(tokens) - 1) : At(tokens, i) = right_token} IN
  IF S = {} THEN -1 ELSE CHOOSE i \in S : \A j \in S : i <= j

find_closing_match(tokens, start, left_token, right_token) ==
  find_closing_match_loop(tokens, start + 1, 1, left_token, right_token)

find_closing_right_command(tokens, start) ==
  find_closing_match(tokens, start, LEFT_COMMAND, RIGHT_COMMAND)

find_closing_end_command(tokens, start) ==
  find_closing_match(tokens, start, BEGIN_COMMAND, END_COMMAND)

\* LatexParser::new(false, false), the only construction in lib.rs and parse_tex
space_sensitive == FALSE

newline_sensitive == FALSE

\* ParseResult: Ok((node, pos)), Err(msg), or an abort
POk(node, pos) == [k |-> "Ok", v |-> node, msg |-> <<>>, pos |-> pos]

PFail(r) == [k |-> r.k, v |-> EMPTY_NODE, msg |-> r.msg, pos |-> 0]

PErr(msg) == [k |-> "Err", v |-> EMPTY_NODE, msg |-> msg, pos |-> 0]

PPanic(msg) == [k |-> "Panic", v |-> EMPTY_NODE, msg |-> msg, pos |-> 0]

Fail(r) == [k |-> r.k, v |-> <<>>, msg |-> r.msg]

\* a Whitespace node the parser drops
insignificant(res) ==
  /\ res.nt = "Whitespace"
  /\ \/ ~space_sensitive /\ Replace(res.content, <<" ">>, <<>>) = <<>>
     \/ ~newline_sensitive /\ res.content = <<"\n">>

\* the SupSub node parse_next_expr builds from base, sub, sup and the primes
supsub_node(base, sub, sup, num_prime) ==
  LET primes == [i \in 1..num_prime |-> TexNode("Element", <<"'">>, <<>>, NoData)]
      sup_args == primes \o sup
      res_sup == IF num_prime > 0
                 THEN (IF Len(sup_args) = 1 THEN Some(sup_args[1])
                       ELSE Some(TexNode("Ordgroup", <<>>, sup_args, NoData)))
                 ELSE sup
  IN TexNode("SupSub", <<>>, <<>>,
             [dk |-> "Supsub", base |-> base, sub |-> sub, sup |-> res_sup])

(***************************************************************************)
(* tex_parser.rs: LatexParser                                              *)
(***************************************************************************)
\* the tail of parse_next_expr: a SupSub node when there is a script or a prime
supsub_result(base, sub, sup, num_prime, pos) ==
  IF sub # None \/ sup # None \/ num_prime > 0
  THEN POk(supsub_node(base, sub, sup, num_prime), pos)
  ELSE POk(base, pos)

\* the value of LatexParser::parse for the collected results
parse_result(results) ==
  IF results = <<>> THEN Ok(EMPTY_NODE)
  ELSE IF Len(results) = 1 THEN Ok(results[1])
  ELSE Ok(TexNode("Ordgroup", <<>>, results, NoData))

EMPTY_GROUP == TexNode("Ordgroup", <<>>, <<>>, NoData)

RECURSIVE parse_loop(_, _, _), parse_next_expr(_, _), parse_next_expr_without_supsub(_, _)
RECURSIVE parse_command_expr(_, _), parse_left_right_expr(_, _), parse_begin_end_expr(_, _)
RECURSIVE parse_aligned_loop(_, _, _, _, _)

\* LatexParser::parse
parse(tokens) == parse_loop(tokens, 0, <<>>)

\* one turn of the loop of parse, r being what parse_next_expr returned
parse_turn(tokens, results, r) ==
  IF r.k # "Ok" THEN Fail(r)
  ELSE IF insignificant(r.v) THEN parse_loop(tokens, r.pos, results)
  ELSE IF r.v.nt = "Control" /\ r.v.content = <<"&">>
  THEN Panic(<<"Unexpected & outside of an alignment">>)
  ELSE parse_loop(tokens, r.pos, Append(results, r.v))

parse_loop(tokens, pos, results) ==
  IF pos >= Len(tokens) THEN parse_result(results)
  ELSE parse_turn(tokens, results, parse_next_expr(tokens, pos))

\* a script operand that must not be followed by a prime: u is the operand
no_prime_after(tokens, u, node) ==
  IF u.k # "Ok" THEN u
  ELSE IF eat_primes(tokens, u.pos) > 0 THEN PPanic(<<"Double superscript">>)
  ELSE node

\* parse_next_expr after the subscript s that follows the base b
after_sub(tokens, b, s, num_prime1) ==
  IF s.k # "Ok" THEN s
  ELSE
    \* num_prime += eat_primes(tokens, pos); pos += num_prime;
    LET rest(num_prime2, pos2) ==
          IF pos2 < Len(tokens) /\ At(tokens, pos2) = SUP_SYMBOL
          THEN LET sup(u) ==
                     no_prime_after(tokens, u,
                       supsub_result(b.v, Some(s.v), Some(u.v), num_prime2, u.pos))
               IN sup(parse_next_expr_without_supsub(tokens, pos2 + 1))
          ELSE supsub_result(b.v, Some(s.v), None, num_prime2, pos2)
    IN rest(num_prime1 + eat_primes(tokens, s.pos),
            s.pos + num_prime1 + eat_primes(tokens, s.pos))

\* parse_next_expr after the superscript u that follows the base b
after_sup(tokens, b, u, num_prime1) ==
  IF u.k # "Ok" THEN u
  ELSE IF eat_primes(tokens, u.pos) > 0 THEN PPanic(<<"Double superscript">>)
  ELSE IF u.pos < Len(tokens) /\ At(tokens, u.pos) = SUB_SYMBOL
  THEN LET sub(s) ==
             no_prime_after(tokens, s,
               supsub_result(b.v, Some(s.v), Some(u.v), num_prime1, s.pos))
       IN sub(parse_next_expr_without_supsub(tokens, u.pos + 1))
  ELSE supsub_result(b.v, None, Some(u.v), num_prime1, u.pos)

\* the operand of a script looked for at the script mark itself: a script
\* after an Empty base does not move the position
after_base_at_mark(tokens, b, num_prime1, pos1) ==
  IF pos1 < Len(tokens) /\ At(tokens, pos1) = SUB_SYMBOL
  THEN after_sub(tokens, b, parse_next_expr_without_supsub(tokens, pos1), num_prime1)
  ELSE IF pos1 < Len(tokens) /\ At(tokens, pos1) = SUP_SYMBOL
  THEN after_sup(tokens, b, parse_next_expr_without_supsub(tokens, pos1), num_prime1)
  ELSE supsub_result(b.v, None, None, num_prime1, pos1)

\* parse_next_expr after the base b and the primes that follow it
after_base(tokens, b, num_prime1, pos1) ==
  IF pos1 < Len(tokens) /\ At(tokens, pos1) = SUB_SYMBOL
  THEN after_sub(tokens, b, parse_next_expr_without_supsub(tokens, pos1 + 1), num_prime1)
  ELSE IF pos1 < Len(tokens) /\ At(tokens, pos1) = SUP_SYMBOL
  THEN after_sup(tokens, b, parse_next_expr_without_supsub(tokens, pos1 + 1), num_prime1)
  ELSE supsub_result(b.v, None, None, num_prime1, pos1)

parse_next_expr(tokens, start) ==
  LET scripts(b) ==
        IF b.k # "Ok" THEN b
        ELSE after_base(tokens, b, eat_primes(tokens, b.pos),
                        b.pos + eat_primes(tokens, b.pos))
  IN scripts(parse_next_expr_without_supsub(tokens, start))

\* the node of a group: inner is the parse of its tokens
group_node(inner, pos_closing_bracket) ==
  IF inner.k # "Ok" THEN PFail(inner) ELSE POk(inner.v, pos_closing_bracket + 1)

\* the Control arm of parse_next_expr_without_supsub
parse_control(tokens, start, first_token, pos_closing_bracket) ==
  CASE first_token.v = <<"{">> ->
         IF pos_closing_bracket = -1 THEN PPanic(<<"Unmatched '{'">>)
         ELSE group_node(parse(Slice(tokens, start + 1, pos_closing_bracket)),
                         pos_closing_bracket)
    [] first_token.v = <<"}">> -> PPanic(<<"Unmatched '}'">>)
    [] first_token.v \in {<<BS, BS>>, <<BS, ",">>, <<"&">>} ->
         POk(TexNode("Control", first_token.v, <<>>, NoData), start + 1)
    [] first_token.v \in {<<"_">>, <<"^">>} -> POk(EMPTY_NODE, start)
    [] OTHER -> PErr(<<"Unknown control sequence">>)

\* the node type of a token that is a node by itself
LeafType(t) ==
  CASE t = "Element" -> "Element"
    [] t = "Text" -> "Text"
    [] t = "Comment" -> "Comment"
    [] t \in {"Space", "Newline"} -> "Whitespace"
    [] t = "NoBreakSpace" -> "NoBreakSpace"
    [] OTHER -> "Unknown"

parse_token(tokens, start, first_token) ==
  IF first_token.t = "Command"
  THEN IF first_token = BEGIN_COMMAND THEN parse_begin_end_expr(tokens, start)
       ELSE IF first_token = LEFT_COMMAND THEN parse_left_right_expr(tokens, start)
       ELSE parse_command_expr(tokens, start)
  ELSE IF first_token.t = "Control"
  THEN parse_control(tokens, start, first_token,
         IF first_token = LEFT_CURLY_BRACKET
         THEN find_closing_match(tokens, start, LEFT_CURLY_BRACKET, RIGHT_CURLY_BRACKET)
         ELSE -1)
  ELSE POk(TexNode(LeafType(first_token.t), first_token.v, <<>>, NoData), start + 1)

parse_next_expr_without_supsub(tokens, start) ==
  IF start >= Len(tokens) THEN PPanic(<<"index out of bounds">>)
  ELSE parse_token(tokens, start, At(tokens, start))

\* a command with its one argument a, and the data of a \sqrt with an exponent
unary_node(command, a, data) ==
  IF a.k # "Ok" THEN a ELSE POk(TexNode("UnaryFunc", command, <<a.v>>, data), a.pos)

\* \sqrt[...]: exponent is the parse of the tokens between the square brackets
sqrt_node(tokens, command, exponent, pos_right_square_bracket) ==
  IF exponent.k # "Ok" THEN PFail(exponent)
  ELSE unary_node(command,
                  parse_next_expr_without_supsub(tokens, pos_right_square_bracket + 1),
                  [dk |-> "Sqrt", exponent |-> exponent.v])

sqrt_with_exponent(tokens, command, pos, pos_right_square_bracket) ==
  IF pos_right_square_bracket = -1
  THEN PPanic(<<"No matching right square bracket for [">>)
  ELSE sqrt_node(tokens, command, parse(Slice(tokens, pos + 1, pos_right_square_bracket)),
                 pos_right_square_bracket)

text_node(tokens, pos) ==
  IF pos + 2 >= Len(tokens) THEN PPanic(<<"Expecting content for \\text command">>)
  ELSE IF At(tokens, pos) # LEFT_CURLY_BRACKET
          \/ At(tokens, pos + 1).t # "Text"
          \/ At(tokens, pos + 2) # RIGHT_CURLY_BRACKET
  THEN PPanic(<<"assertion failed">>)
  ELSE POk(TexNode("Text", At(tokens, pos + 1).v, <<>>, NoData), pos + 3)

\* a command with two arguments, a1 being the first
binary_node(tokens, command, a1) ==
  IF a1.k # "Ok" THEN a1
  ELSE LET second(a2) ==
             IF a2.k # "Ok" THEN a2
             ELSE POk(TexNode("BinaryFunc", command, <<a1.v, a2.v>>, NoData), a2.pos)
       IN second(parse_next_expr_without_supsub(tokens, a1.pos))

command_node(tokens, command, pos, param_num) ==
  CASE param_num = 0 ->
         IF ~symbol_map_contains_key(Tail(command))
         THEN POk(TexNode("UnknownMacro", command, <<>>, NoData), pos)
         ELSE POk(TexNode("Symbol", command, <<>>, NoData), pos)
    [] param_num = 1 ->
         IF pos >= Len(tokens) THEN PPanic(<<"Expecting argument for {}", command>>)
         ELSE IF command = cmd_sqrt /\ At(tokens, pos) = LEFT_SQUARE_BRACKET
         THEN sqrt_with_exponent(tokens, command, pos,
                find_closing_match(tokens, pos, LEFT_SQUARE_BRACKET, RIGHT_SQUARE_BRACKET))
         ELSE IF command = cmd_text THEN text_node(tokens, pos)
         ELSE unary_node(command, parse_next_expr_without_supsub(tokens, pos), NoData)
    [] OTHER -> binary_node(tokens, command, parse_next_expr_without_supsub(tokens, pos))

parse_command_expr(tokens, start) ==
  IF At(tokens, start).v \in {cmd_left, cmd_right, cmd_begin, cmd_end}
  THEN PPanic(<<"Unexpected command: {}", At(tokens, start).v>>)
  ELSE command_node(tokens, At(tokens, start).v, start + 1,
                    get_command_param_num(Tail(At(tokens, start).v)))

\* the Leftright node: body is the parse of the tokens between the delimiters
leftright_node(left_delimiter, body, right_delimiter, pos) ==
  IF body.k # "Ok" THEN PFail(body)
  ELSE POk(TexNode("Leftright", <<>>,
                   << TexNode("Element", left_delimiter[1].v, <<>>, NoData),
                      body.v,
                      TexNode("Element", right_delimiter[1].v, <<>>, NoData) >>,
                   NoData),
           pos + 1)

\* parse_left_right_expr from the position after the matching \right
right_part(tokens, left_delimiter, expr_inside_start, idx, pos2) ==
  IF pos2 >= Len(tokens) THEN PErr(<<"Expecting \\right after \\left">>)
  ELSE IF eat_parenthesis(tokens, pos2) = None
  THEN PErr(<<"Invalid delimiter after \\right">>)
  ELSE IF expr_inside_start > idx THEN PPanic(<<"slice index starts after its end">>)
  ELSE leftright_node(left_delimiter, parse(Slice(tokens, expr_inside_start, idx)),
                      eat_parenthesis(tokens, pos2), pos2)

\* parse_left_right_expr from the delimiter that follows \left
left_part(tokens, start, pos1, idx) ==
  IF pos1 >= Len(tokens) THEN PErr(<<"Expecting delimiter after \\left">>)
  ELSE IF eat_parenthesis(tokens, pos1) = None
  THEN PErr(<<"Invalid delimiter after \\left">>)
  ELSE IF idx = -1 THEN PErr(<<"No matching \\right">>)
  ELSE right_part(tokens, eat_parenthesis(tokens, pos1), pos1 + 1, idx,
                  idx + 1 + eat_whitespaces(tokens, idx + 1))

parse_left_right_expr(tokens, start) ==
  left_part(tokens, start, start + 1 + eat_whitespaces(tokens, start + 1),
            find_closing_right_command(tokens, start))

\* the assertions on the {name} block that follows \begin and \end
name_block_ok(tokens, pos) ==
  /\ pos + 2 < Len(tokens)
  /\ At(tokens, pos) = LEFT_CURLY_BRACKET
  /\ At(tokens, pos + 1).t = "Text"
  /\ At(tokens, pos + 2) = RIGHT_CURLY_BRACKET

\* the tokens of an environment body without its trailing spaces and newlines
RECURSIVE pop_trailing_whitespace(_)
pop_trailing_whitespace(expr_inside) ==
  IF expr_inside # <<>> /\ expr_inside[Len(expr_inside)].t \in {"Space", "Newline"}
  THEN pop_trailing_whitespace(SubSeq(expr_inside, 1, Len(expr_inside) - 1))
  ELSE expr_inside

\* parse_aligned; all_rows, row and group are the three locals of the loop.
\* Vec::push stores a clone, so a later change of row or group does not reach
\* the copy already stored in all_rows.
parse_aligned(tokens) ==
  parse_aligned_loop(tokens, 0, <<<<>>>>, <<EMPTY_GROUP>>, EMPTY_GROUP)

\* one turn of the loop of parse_aligned, r being what parse_next_expr returned
parse_aligned_turn(tokens, all_rows, row, group, r) ==
  IF r.k # "Ok" THEN Fail(r)
  ELSE IF insignificant(r.v) THEN parse_aligned_loop(tokens, r.pos, all_rows, row, group)
  ELSE IF r.v.nt = "Control" /\ r.v.content = <<BS, BS>>
  THEN parse_aligned_loop(tokens, r.pos, Append(all_rows, <<EMPTY_GROUP>>),
                          <<EMPTY_GROUP>>, EMPTY_GROUP)
  ELSE IF r.v.nt = "Control" /\ r.v.content = <<"&">>
  THEN parse_aligned_loop(tokens, r.pos, all_rows, Append(row, EMPTY_GROUP), EMPTY_GROUP)
  ELSE parse_aligned_loop(tokens, r.pos, all_rows, row,
                          [group EXCEPT !.args = Append(@, r.v)])

parse_aligned_loop(tokens, pos, all_rows, row, group) ==
  IF pos >= Len(tokens) THEN Ok(all_rows)
  ELSE parse_aligned_turn(tokens, all_rows, row, group, parse_next_expr(tokens, pos))

\* the BeginEnd node: body is what parse_aligned returned
beginend_node(env_name, body, end_idx) ==
  IF body.k # "Ok" THEN PFail(body)
  ELSE POk(TexNode("BeginEnd", env_name, <<>>, [dk |-> "Array", rows |-> body.v]),
           end_idx + 4)

\* parse_begin_end_expr after the {name} block of \begin
environment(tokens, env_name, expr_inside_start, end_idx) ==
  IF end_idx = -1 THEN PPanic(<<"No matching \\end">>)
  ELSE IF ~name_block_ok(tokens, end_idx + 1) THEN PPanic(<<"assertion failed">>)
  ELSE IF At(tokens, end_idx + 2).v # env_name
  THEN PErr(<<"Mismatched \\begin and \\end environments">>)
  ELSE IF expr_inside_start > end_idx THEN PPanic(<<"slice index starts after its end">>)
  ELSE beginend_node(env_name,
         parse_aligned(pop_trailing_whitespace(Slice(tokens, expr_inside_start, end_idx))),
         end_idx)

parse_begin_end_expr(tokens, start) ==
  IF ~name_block_ok(tokens, start + 1) THEN PPanic(<<"assertion failed">>)
  ELSE environment(tokens, At(tokens, start + 2).v,
                   start + 4 + eat_whitespaces(tokens, start + 4),
                   find_closing_end_command(tokens, start))

\* Remove all whitespace before or after _ or ^
RECURSIVE pass_ignore_whitespace_loop(_, _)
pass_ignore_whitespace_loop(tokens, i) ==
  LET is_script_mark(token) == token = SUB_SYMBOL \/ token = SUP_SYMBOL IN
  IF i >= Len(tokens) THEN <<>>
  ELSE IF At(tokens, i).t = "Space" /\ i + 1 < Len(tokens) /\ is_script_mark(At(tokens, i + 1))
  THEN pass_ignore_whitespace_loop(tokens, i + 1)
  ELSE IF At(tokens, i).t = "Space" /\ i > 0 /\ is_script_mark(At(tokens, i - 1))
  THEN pass_ignore_whitespace_loop(tokens, i + 1)
  ELSE <<At(tokens, i)>> \o pass_ignore_whitespace_loop(tokens, i + 1)

pass_ignore_whitespace_before_script_mark(tokens) == pass_ignore_whitespace_loop(tokens, 0)

\* pass_expand_custom_tex_macros: custom_tex_macros is a set of <<name, expansion>>;
\* an expansion that does not tokenize is dropped
RECURSIVE pass_expand_custom_tex_macros(_, _)
pass_expand_custom_tex_macros(tokens, custom_tex_macros) ==
  IF tokens = <<>> THEN Ok(<<>>)
  ELSE
    LET token == Head(tokens)
        rest == pass_expand_custom_tex_macros(Tail(tokens), custom_tex_macros)
        hit == {e \in custom_tex_macros : e[1] = token.v}
    IN
    IF token.t = "Command" /\ hit # {}
    THEN LET expanded == parser_tokenize((CHOOSE e \in hit : TRUE)[2]) IN
         IF expanded.k = "Panic" THEN expanded
         ELSE IF rest.k # "Ok" THEN rest
         ELSE Ok((IF expanded.k = "Ok" THEN expanded.v ELSE <<>>) \o rest.v)
    ELSE IF rest.k # "Ok" THEN rest
    ELSE Ok(<<token>> \o rest.v)

\* parse_tex as lib.rs calls it: without a custom macro table
parse_tex(tex) ==
  LET parse_expanded(e) == IF e.k # "Ok" THEN e ELSE parse(e.v)
      expand(t) ==
        IF t.k # "Ok" THEN t
        ELSE parse_expanded(pass_expand_custom_tex_macros(
                              pass_ignore_whitespace_before_script_mark(t.v), {}))
  IN expand(parser_tokenize(tex))

(***************************************************************************)
(* String literals of converter.rs and typst_writer.rs                     *)
(***************************************************************************)
s_overbrace == <<"o", "v", "e", "r", "b", "r", "a", "c", "e">>

s_underbrace == <<"u", "n", "d", "e", "r", "b", "r", "a", "c", "e">>

s_lr == <<"l", "r">>

s_sqrt == <<"s", "q", "r", "t">>

s_root == <<"r", "o", "o", "t">>

s_bold == <<"b", "o", "l", "d">>

s_upright == <<"u", "p", "r", "i", "g", "h", "t">>

s_op == <<"o", "p">>

s_eq_def == <<"e", "q", ".", "d", "e", "f">>

s_limits == <<"l", "i", "m", "i", "t", "s">>

s_true == <<"t", "r", "u", "e">>

s_delim == <<"d", "e", "l", "i", "m">>

s_hnone == <<"#", "n", "o", "n", "e">>

s_thin == <<"t", "h", "i", "n">>

s_parallel == <<"p", "a", "r", "a", "l", "l", "e", "l">>

s_def == <<"d", "e", "f">>

s_mat == <<"m", "a", "t">>

s_comma == <<"c", "o", "m", "m", "a">>

s_align == <<"a", "l", "i", "g", "n">>

TYPST_INTRINSIC_SYMBOLS ==
  {<<"d", "i", "m">>, <<"i", "d">>, <<"i", "m">>, <<"m", "o", "d">>, <<"P", "r">>,
   <<"s", "e", "c", "h">>, <<"c", "s", "c", "h">>}

cmd_overbrace == <<BS, "o", "v", "e", "r", "b", "r", "a", "c", "e">>

cmd_underbrace == <<BS, "u", "n", "d", "e", "r", "b", "r", "a", "c", "e">>

cmd_mathbf == <<BS, "m", "a", "t", "h", "b", "f">>

cmd_mathbb == <<BS, "m", "a", "t", "h", "b", "b">>

cmd_overset == <<BS, "o", "v", "e", "r", "s", "e", "t">>

(***************************************************************************)
(* converter.rs                                                            *)
(***************************************************************************)
\* TypstNode::new(node_type, content, args, data), options None
TypstNode(nt, content, args, data) ==
  [nt |-> nt, content |-> content, args |-> args, data |-> data, options |-> <<>>]

\* set_options: options is a sequence of <<key, value>>
set_options(node, options) == [node EXCEPT !.options = options]

convert_token(token) ==
  IF \A i \in 1..Len(token) : is_alphanumeric(token[i]) THEN token
  ELSE IF token = <<"/">> THEN <<BS, "/">>
  ELSE IF token = <<BS, "|">> THEN s_parallel
  ELSE IF token = <<BS, BS>> THEN <<BS>>
  ELSE IF token \in {<<BS, "$">>, <<BS, "#">>, <<BS, "&">>, <<BS, "_">>} THEN token
  ELSE IF starts_with(token, <<BS>>)
  THEN (IF symbol_map_contains_key(Tail(token)) THEN symbol_map_get(Tail(token))
        ELSE Tail(token))
  ELSE token

RECURSIVE convert_tree(_), convert_all(_), convert_rows(_), convert_overset(_)

\* iter().map(convert_tree).collect::<Result<Vec<_>, String>>()
convert_all(nodes) ==
  IF nodes = <<>> THEN Ok(<<>>)
  ELSE LET h == convert_tree(Head(nodes)) IN
       IF h.k # "Ok" THEN h
       ELSE LET t == convert_all(Tail(nodes)) IN
            IF t.k # "Ok" THEN t ELSE Ok(<<h.v>> \o t.v)

convert_rows(rows) ==
  IF rows = <<>> THEN Ok(<<>>)
  ELSE LET h == convert_all(Head(rows)) IN
       IF h.k # "Ok" THEN h
       ELSE LET t == convert_rows(Tail(rows)) IN
            IF t.k # "Ok" THEN t ELSE Ok(<<h.v>> \o t.v)

convert_tree(node) ==
  LET leaf(nt, content) == Ok(TypstNode(nt, content, <<>>, NoData))
      call(name, args) == Ok(TypstNode("FuncCall", name, args, NoData))
  IN
  CASE node.nt = "Empty" -> leaf("Empty", <<>>)
    [] node.nt = "Whitespace" -> leaf("Whitespace", node.content)
    [] node.nt = "NoBreakSpace" -> leaf("NoBreakSpace", node.content)
    [] node.nt = "Ordgroup" ->
         LET a == convert_all(node.args) IN
         IF a.k # "Ok" THEN a ELSE Ok(TypstNode("Group", <<>>, a.v, NoData))
    [] node.nt = "Element" -> leaf("Atom", convert_token(node.content))
    [] node.nt = "Symbol" -> leaf("Symbol", convert_token(node.content))
    [] node.nt = "Text" -> leaf("Text", node.content)
    [] node.nt = "Comment" -> leaf("Comment", node.content)
    [] node.nt = "SupSub" ->
         IF node.data.dk # "Supsub" THEN Err(<<"SupSub node does not have data">>)
         ELSE
           LET base == node.data.base
               sup == node.data.sup
               sub == node.data.sub
           IN
           IF base.nt = "UnaryFunc" /\ base.content = cmd_overbrace /\ sup # None
           THEN LET a == convert_tree(base.args[1]) IN
                IF a.k # "Ok" THEN a
                ELSE LET b == convert_tree(sup[1]) IN
                     IF b.k # "Ok" THEN b ELSE call(s_overbrace, <<a.v, b.v>>)
           ELSE IF base.nt = "UnaryFunc" /\ base.content = cmd_underbrace /\ sub # None
           THEN LET a == convert_tree(base.args[1]) IN
                IF a.k # "Ok" THEN a
                ELSE LET b == convert_tree(sub[1]) IN
                     IF b.k # "Ok" THEN b ELSE call(s_underbrace, <<a.v, b.v>>)
           ELSE
             LET cb == convert_tree(base) IN
             IF cb.k # "Ok" THEN cb
             ELSE
               LET tbase == IF cb.v.nt = "Empty" THEN TypstNode("Text", <<>>, <<>>, NoData)
                            ELSE cb.v
                   csup == IF sup # None THEN convert_tree(sup[1]) ELSE Ok(EMPTY_NODE)
               IN
               IF csup.k # "Ok" THEN csup
               ELSE
                 LET csub == IF sub # None THEN convert_tree(sub[1]) ELSE Ok(EMPTY_NODE) IN
                 IF csub.k # "Ok" THEN csub
                 ELSE Ok(TypstNode("Supsub", <<>>, <<>>,
                           [dk |-> "Supsub", base |-> tbase,
                            sup |-> IF sup # None THEN Some(csup.v) ELSE None,
                            sub |-> IF sub # None THEN Some(csub.v) ELSE None]))
    [] node.nt = "Leftright" ->
         LET left == node.args[1]
             right == node.args[3]
             a == convert_all(node.args)
         IN
         IF a.k # "Ok" THEN a
         ELSE IF <<left.content, right.content>> \in
                   { <<<<"[">>, <<"]">>>>, <<<<"(">>, <<")">>>>,
                     <<<<BS, "{">>, <<BS, "}">>>>,
                     <<<<BS,"l","f","l","o","o","r">>, <<BS,"r","f","l","o","o","r">>>>,
                     <<<<BS,"l","c","e","i","l">>, <<BS,"r","c","e","i","l">>>>,
                     <<<<BS,"l","f","l","o","o","r">>, <<BS,"r","c","e","i","l">>>> }
         THEN Ok(TypstNode("Group", <<>>, a.v, NoData))
         ELSE IF right.content = <<".">>
         THEN Ok(TypstNode("Group", <<>>, SubSeq(a.v, 1, Len(a.v) - 1), NoData))
         ELSE IF left.content = <<".">>
         THEN call(s_lr, <<TypstNode("Group", <<>>, Tail(a.v), NoData)>>)
         ELSE call(s_lr, <<TypstNode("Group", <<>>, a.v, NoData)>>)
    [] node.nt = "OptionBinaryFunc" ->
         IF node.content = cmd_sqrt
         THEN
           (CASE Len(node.args) = 1 ->
                   LET m == convert_tree(node.args[1]) IN
                   IF m.k # "Ok" THEN m ELSE call(s_sqrt, <<m.v>>)
              [] Len(node.args) = 2 ->
                   LET o == convert_tree(node.args[1]) IN
                   IF o.k # "Ok" THEN o
                   ELSE LET m == convert_tree(node.args[2]) IN
                        IF m.k # "Ok" THEN m ELSE call(s_root, <<o.v, m.v>>)
              [] OTHER -> Err(<<"Invalid number of arguments for \\sqrt: {}", Len(node.args)>>))
         ELSE Err(<<"Unknown option binary function: {}", node.content>>)
    [] node.nt = "BinaryFunc" ->
         IF node.content = cmd_overset THEN convert_overset(node)
         ELSE IF node.content = cmd_frac
         THEN LET num == convert_tree(node.args[1]) IN
              IF num.k # "Ok" THEN num
              ELSE LET den == convert_tree(node.args[2]) IN
                   IF den.k # "Ok" THEN den
                   ELSE Ok(TypstNode("Fraction", <<>>, <<num.v, den.v>>, NoData))
         ELSE LET a == convert_all(node.args) IN
              IF a.k # "Ok" THEN a ELSE call(convert_token(node.content), a.v)
    [] node.nt = "UnaryFunc" ->
         LET arg0 == convert_tree(node.args[1]) IN
         IF arg0.k # "Ok" THEN arg0
         ELSE IF node.content = cmd_mathbf
         THEN call(s_upright, <<TypstNode("FuncCall", s_bold, <<arg0.v>>, NoData)>>)
         ELSE IF /\ node.content = cmd_mathbb
                 /\ arg0.v.nt = "Atom"
                 /\ \A i \in 1..Len(arg0.v.content) : is_ascii_uppercase(arg0.v.content[i])
         THEN leaf("Symbol", arg0.v.content \o arg0.v.content)
         ELSE IF node.content = cmd_operatorname
         THEN
           IF Len(node.args) # 1 \/ node.args[1].nt # "Text"
           THEN Err(<<"Expecting body of \\operatorname to be text but got {:?}", node>>)
           ELSE IF node.args[1].content \in TYPST_INTRINSIC_SYMBOLS
           THEN leaf("Symbol", node.args[1].content)
           ELSE call(s_op, <<TypstNode("Text", node.args[1].content, <<>>, NoData)>>)
         ELSE LET a == convert_all(node.args) IN
              IF a.k # "Ok" THEN a ELSE call(convert_token(node.content), a.v)
    [] node.nt = "BeginEnd" ->
         IF node.data.dk # "Array" THEN Panic(<<"explicit panic">>)
         ELSE
           LET data == convert_rows(node.data.rows) IN
           IF data.k # "Ok" THEN data
           ELSE IF starts_with(node.content, s_align)
           THEN Ok(TypstNode("Align", <<>>, <<>>, [dk |-> "Array", rows |-> data.v]))
           ELSE Ok(set_options(
                     TypstNode("Matrix", <<>>, <<>>, [dk |-> "Array", rows |-> data.v]),
                     << <<s_delim, s_hnone>> >>))
    [] node.nt = "UnknownMacro" -> leaf("Unknown", convert_token(node.content))
    [] node.nt = "Control" ->
         IF node.content = <<BS, BS>> THEN leaf("Symbol", <<BS>>)
         ELSE IF node.content = <<BS, ",">> THEN leaf("Symbol", s_thin)
         ELSE Err(<<"Unknown control sequence: {:?}", node>>)
    [] OTHER -> leaf("Unknown", convert_token(node.content))

convert_overset(node) ==
  LET sup == node.args[1]
      base == node.args[2]
      elem(c) == TexNode("Element", <<c>>, <<>>, NoData)
      is_def(n) ==
        \/ n = TexNode("Text", s_def, <<>>, NoData)
        \/ /\ n.nt = "Ordgroup"
           /\ Len(n.args) = 3
           /\ n.args[1] = elem("d") /\ n.args[2] = elem("e") /\ n.args[3] = elem("f")
      is_eq(n) == n = elem("=")
  IN
  IF is_def(sup) /\ is_eq(base)
  THEN Ok(TypstNode("Symbol", s_eq_def, <<>>, NoData))
  ELSE
    LET b == convert_tree(base) IN
    IF b.k # "Ok" THEN b
    ELSE
      LET s == convert_tree(sup) IN
      IF s.k # "Ok" THEN s
      ELSE Ok(TypstNode("Supsub", <<>>, <<>>,
                [dk |-> "Supsub",
                 base |-> set_options(TypstNode("FuncCall", s_op, <<b.v>>, NoData),
                                      << <<s_limits, s_true>> >>),
                 sup |-> Some(s.v),
                 sub |-> None]))

(***************************************************************************)
(* typst_writer.rs                                                         *)
(***************************************************************************)
TypstToken(t, v) == [t |-> t, v |-> v]

TYPST_LEFT_PARENTHESIS == TypstToken("Element", <<"(">>)

TYPST_RIGHT_PARENTHESIS == TypstToken("Element", <<")">>)

TYPST_COMMA == TypstToken("Element", <<",">>)

TYPST_NEWLINE == TypstToken("Symbol", <<"\n">>)

SOFT_SPACE == TypstToken("Control", <<" ">>)

\* TypstToken::to_string
token_to_string(token) ==
  CASE token.t = "Text" -> <<"\"">> \o token.v \o <<"\"">>
    [] token.t = "Comment" -> <<"/", "/">> \o token.v
    [] OTHER -> token.v

\* TypstWriter::new
new_writer == [buffer |-> <<>>, queue |-> <<>>, inside_function_depth |-> 0]

push(w, token) == [w EXCEPT !.queue = Append(@, token)]

enter_function(w) == [w EXCEPT !.inside_function_depth = @ + 1]

\* the counter left as it is
leave_function_skipped(w) == w

leave_function(w) == [w EXCEPT !.inside_function_depth = @ - 1]

\* the result of a writer method: the writer after it, or the error
WOk(w) == [k |-> "Ok", v |-> w, msg |-> <<>>, flag |-> FALSE]

WFlag(w, flag) == [k |-> "Ok", v |-> w, msg |-> <<>>, flag |-> flag]

WErr(w, msg) == [k |-> "Err", v |-> w, msg |-> msg, flag |-> FALSE]

WPanic(w, msg) == [k |-> "Panic", v |-> w, msg |-> msg, flag |-> FALSE]

\* the four floor and ceiling bracket characters of the source's list are outside
\* the modelled alphabet, so no content equals them
is_delimiter(c) ==
  /\ c.nt = "Atom"
  /\ c.content \in {<<"(">>, <<")">>, <<"[">>, <<"]">>, <<"{">>, <<"}">>, <<"|">>}

\* the option tokens of a FuncCall: ", key: value"
funccall_option_token(kv) ==
  TypstToken("Symbol", <<",", " ">> \o kv[1] \o <<":", " ">> \o kv[2])

\* the option tokens of a Matrix: "key: value, "
matrix_option_token(kv) ==
  TypstToken("Symbol", kv[1] \o <<":", " ">> \o kv[2] \o <<",", " ">>)

RECURSIVE push_all(_, _)
push_all(w, tokens) ==
  IF tokens = <<>> THEN w ELSE push_all(push(w, Head(tokens)), Tail(tokens))

RECURSIVE serialize(_, _), serialize_group(_, _), serialize_call_args(_, _, _)
RECURSIVE smart_parenthesis(_, _), append_with_brackets_if_needed(_, _)
RECURSIVE serialize_whitespace(_, _), serialize_align(_, _, _, _), serialize_matrix(_, _, _, _)

\* the Whitespace arm: one newline symbol per newline, an error for any other
\* character than a space or a newline
serialize_whitespace(w, content) ==
  IF content = <<>> THEN WOk(w)
  ELSE IF Head(content) = " " THEN serialize_whitespace(w, Tail(content))
  ELSE IF Head(content) = "\n"
  THEN serialize_whitespace(push(w, TypstToken("Symbol", <<"\n">>)), Tail(content))
  ELSE WErr(w, <<"Unexpected whitespace character: {}", Head(content)>>)

\* the Group arm: every item in order
serialize_group(w, args) ==
  IF args = <<>> THEN WOk(w)
  ELSE LET h == serialize(w, Head(args)) IN
       IF h.k # "Ok" THEN h ELSE serialize_group(h.v, Tail(args))

\* the arguments of a FuncCall from the i-th (0-based) on, a comma after all but the last
serialize_call_args(w, args, i) ==
  IF i >= Len(args) THEN WOk(w)
  ELSE LET h == serialize(w, At(args, i)) IN
       IF h.k # "Ok" THEN h
       ELSE serialize_call_args(
              IF i < Len(args) - 1 THEN push(h.v, TypstToken("Element", <<",">>)) ELSE h.v,
              args, i + 1)

\* the rows of an Align from cell (i, j) on
serialize_align(w, matrix, i, j) ==
  IF i >= Len(matrix) THEN WOk(w)
  ELSE IF j >= Len(At(matrix, i))
  THEN serialize_align(
         IF i < Len(matrix) - 1 THEN push(w, TypstToken("Symbol", <<BS>>)) ELSE w,
         matrix, i + 1, 0)
  ELSE
    LET w1 == IF j > 0 THEN push(w, TypstToken("Element", <<"&">>)) ELSE w
        h == serialize(w1, At(At(matrix, i), j))
    IN IF h.k # "Ok" THEN h ELSE serialize_align(h.v, matrix, i, j + 1)

\* the rows of a Matrix from cell (i, j) on
serialize_matrix(w, matrix, i, j) ==
  IF i >= Len(matrix) THEN WOk(w)
  ELSE IF j >= Len(At(matrix, i)) THEN serialize_matrix(w, matrix, i + 1, 0)
  ELSE
    LET h == serialize(w, At(At(matrix, i), j)) IN
    IF h.k # "Ok" THEN h
    ELSE serialize_matrix(
           IF j < Len(At(matrix, i)) - 1 THEN push(h.v, TypstToken("Element", <<",">>))
           ELSE IF i < Len(matrix) - 1 THEN push(h.v, TypstToken("Element", <<";">>))
           ELSE h.v,
           matrix, i, j + 1)

serialize(w, node) ==
  CASE node.nt = "Empty" -> WOk(w)
    [] node.nt = "Atom" ->
         IF node.content = <<",">> /\ w.inside_function_depth > 0
         THEN WOk(push(w, TypstToken("Symbol", s_comma)))
         ELSE WOk(push(w, TypstToken("Element", node.content)))
    [] node.nt = "Symbol" -> WOk(push(w, TypstToken("Symbol", node.content)))
    [] node.nt = "Text" -> WOk(push(w, TypstToken("Text", node.content)))
    [] node.nt = "Comment" -> WOk(push(w, TypstToken("Comment", node.content)))
    [] node.nt = "Whitespace" -> serialize_whitespace(w, node.content)
    [] node.nt = "NoBreakSpace" -> WOk(push(w, TypstToken("Symbol", NOBREAK)))
    [] node.nt = "Group" -> serialize_group(w, node.args)
    [] node.nt = "Supsub" ->
         LET data == node.data
             b == append_with_brackets_if_needed(w, data.base)
         IN
         IF b.k # "Ok" THEN b
         ELSE
           LET has_prime == data.sup # None /\ data.sup[1].nt = "Atom"
                            /\ data.sup[1].content = <<"'">>
               w1 == IF has_prime THEN push(b.v, TypstToken("Element", <<"'">>)) ELSE b.v
               s == IF data.sub # None
                    THEN append_with_brackets_if_needed(
                           push(w1, TypstToken("Element", <<"_">>)), data.sub[1])
                    ELSE WFlag(w1, FALSE)
           IN
           IF s.k # "Ok" THEN s
           ELSE
             LET u == IF data.sup # None /\ ~has_prime
                      THEN append_with_brackets_if_needed(
                             push(s.v, TypstToken("Element", <<"^">>)), data.sup[1])
                      ELSE s
             IN
             IF u.k # "Ok" THEN u
             ELSE WOk(IF u.flag THEN push(u.v, SOFT_SPACE) ELSE u.v)
    [] node.nt = "FuncCall" ->
         LET w1 == push(enter_function(push(w, TypstToken("Symbol", node.content))),
                        TYPST_LEFT_PARENTHESIS)
             a == serialize_call_args(w1, node.args, 0)
         IN
         IF a.k # "Ok" THEN a
         ELSE WOk(leave_function(
                    push(push_all(a.v, [i \in 1..Len(node.options) |->
                                          funccall_option_token(node.options[i])]),
                         TYPST_RIGHT_PARENTHESIS)))
    [] node.nt = "Fraction" ->
         LET n == smart_parenthesis(w, node.args[1]) IN
         IF n.k # "Ok" THEN n
         ELSE smart_parenthesis(push(n.v, TypstToken("Symbol", <<"/">>)), node.args[2])
    [] node.nt = "Align" -> serialize_align(w, node.data.rows, 0, 0)
    [] node.nt = "Matrix" ->
         LET w1 == push(enter_function(push(w, TypstToken("Symbol", s_mat))),
                        TYPST_LEFT_PARENTHESIS)
             w2 == push_all(w1, [i \in 1..Len(node.options) |->
                                   matrix_option_token(node.options[i])])
             m == serialize_matrix(w2, node.data.rows, 0, 0)
         IN
         IF m.k # "Ok" THEN m
         ELSE WOk(leave_function(push(m.v, TYPST_RIGHT_PARENTHESIS)))
    [] OTHER -> WOk(push(w, TypstToken("Symbol", node.content)))

smart_parenthesis(w, node) ==
  IF node.nt = "Group"
  THEN LET h == serialize(push(w, TYPST_LEFT_PARENTHESIS), node) IN
       IF h.k # "Ok" THEN h ELSE WOk(push(h.v, TYPST_RIGHT_PARENTHESIS))
  ELSE serialize(w, node)

\* flag is the returned bool, !need_to_wrap
append_with_brackets_if_needed(w, node) ==
  IF node.nt = "Group" /\ node.args = <<>> THEN WPanic(w, <<"index out of bounds">>)
  ELSE
    LET need_to_wrap ==
          /\ node.nt \in {"Group", "Supsub", "Empty"}
          /\ ~(/\ node.nt = "Group"
               /\ is_delimiter(node.args[1])
               /\ is_delimiter(node.args[Len(node.args)]))
    IN
    IF need_to_wrap
    THEN LET h == serialize(push(w, TYPST_LEFT_PARENTHESIS), node) IN
         IF h.k # "Ok" THEN h ELSE WFlag(push(h.v, TYPST_RIGHT_PARENTHESIS), FALSE)
    ELSE LET h == serialize(w, node) IN
         IF h.k # "Ok" THEN h ELSE WFlag(h.v, TRUE)

\* write_buffer: the buffer after appending the token's string
write_buffer(buffer, token) ==
  LET new_str == token_to_string(token)
      ends_in(S) == buffer # <<>> /\ buffer[Len(buffer)] \in S
      first == new_str[1]
      no_need_space ==
        \/ ends_in({"(", "[", "|"}) /\ is_alphanumeric(first)
        \/ first \in {")", "}", "]", "|"}
        \/ ~ends_in({"="}) /\ first = "("
        \/ first \in {"(", "_", "^", ",", ";", "!"}
        \/ new_str = <<"'">>
        \/ ends_in(Digits) /\ is_digit(first)
        \/ ends_in({"(", "[", "{"}) /\ first \in {"-", "+"}
        \/ buffer = <<"-">>
        \/ buffer = <<"+">>
        \/ first = "\n"
        \/ buffer = <<>>
        \/ is_whitespace(first)
        \/ ends_in({"&"}) /\ new_str = <<"=">>
        \/ ends_in({"/"})
        \/ first = "/"
        \/ ends_in({" ", "_", "^", "{", "("})
  IN
  IF new_str = <<>> THEN buffer
  ELSE IF no_need_space THEN buffer \o new_str
  ELSE buffer \o <<" ">> \o new_str

\* the queue with every soft space emptied, whatever comes after it
drop_every_soft_space(queue) ==
  [i \in 1..Len(queue) |->
     IF queue[i] = SOFT_SPACE THEN TypstToken("Control", <<>>) ELSE queue[i]]

\* the queue with the soft spaces that are not needed emptied
drop_soft_spaces(queue) ==
  [i \in 1..Len(queue) |->
     IF queue[i] = SOFT_SPACE
        /\ (i = Len(queue)
            \/ queue[i + 1] \in {TYPST_RIGHT_PARENTHESIS, TYPST_COMMA, TYPST_NEWLINE})
     THEN TypstToken("Control", <<>>)
     ELSE queue[i]]

RECURSIVE write_all(_, _)
write_all(buffer, queue) ==
  IF queue = <<>> THEN buffer
  ELSE write_all(write_buffer(buffer, Head(queue)), Tail(queue))

flush_queue(w) ==
  [w EXCEPT !.buffer = write_all(w.buffer, drop_soft_spaces(w.queue)), !.queue = <<>>]

s_floor_l == <<"f","l","o","o","r",".","l">>

s_floor_r == <<"f","l","o","o","r",".","r">>

s_ceil_l == <<"c","e","i","l",".","l">>

s_ceil_r == <<"c","e","i","l",".","r">>

s_floor == <<"f","l","o","o","r">>

s_ceil == <<"c","e","i","l">>

s_round == <<"r","o","u","n","d">>

WhitespaceChars == {" ", "\n", "\t", "\r"}

\* The match of  open\s*(.*?)\s*close  that starts at i, None if there is none:
\* the first \s* is greedy, the capture is the shortest run without a newline
\* that is followed by whitespace and then close.
smart_pass_match_at(s, i, open, close) ==
  IF ~StartsWithAt(s, i, open) THEN None
  ELSE
    LET a == RunEnd(s, i + Len(open), WhitespaceChars)
        ends == {q \in a..Len(s) :
                   /\ "\n" \notin Range(Slice(s, a, q))
                   /\ StartsWithAt(s, RunEnd(s, q, WhitespaceChars), close)}
    IN
    IF ends = {} THEN None
    ELSE LET q == CHOOSE x \in ends : \A y \in ends : x <= y IN
         Some([cap |-> Slice(s, a, q),
               end |-> RunEnd(s, q, WhitespaceChars) + Len(close)])

\* Regex::replace_all of  open\s*(.*?)\s*close  by  name($1) , from pos on
RECURSIVE smart_pass_replace_all(_, _, _, _, _)
smart_pass_replace_all(s, pos, open, close, name) ==
  LET starts == {i \in pos..Len(s) : smart_pass_match_at(s, i, open, close) # None} IN
  IF starts = {} THEN SliceFrom(s, pos)
  ELSE
    LET i == CHOOSE x \in starts : \A y \in starts : x <= y
        m == smart_pass_match_at(s, i, open, close)[1]
    IN Slice(s, pos, i) \o name \o <<"(">> \o m.cap \o <<")">>
         \o smart_pass_replace_all(s, m.end, open, close, name)

\* one pass of finalize: the regex replacement, then name() becomes name("")
smart_pass(input, open, close, name) ==
  Replace(smart_pass_replace_all(input, 0, open, close, name),
          name \o <<"(", ")">>, name \o <<"(", "\"", "\"", ")">>)

smart_floor_pass(input) == smart_pass(input, s_floor_l, s_floor_r, s_floor)

smart_ceil_pass(input) == smart_pass(input, s_ceil_l, s_ceil_r, s_ceil)

smart_round_pass(input) == smart_pass(input, s_floor_l, s_ceil_r, s_round)

\* TypstWriter::finalize
finalize(w) ==
  Ok(smart_round_pass(smart_ceil_pass(smart_floor_pass(flush_queue(w).buffer))))

(***************************************************************************)
(* lib.rs                                                                  *)
(***************************************************************************)
\* a failure of an earlier stage, passed on unchanged
Propagate(r) == [k |-> r.k, v |-> <<>>, msg |-> r.msg]

tex2typst(tex) ==
  LET written(writer) ==
        IF writer.k # "Ok" THEN Propagate(writer) ELSE finalize(writer.v)
      converted(typst_tree) ==
        IF typst_tree.k # "Ok" THEN Propagate(typst_tree)
        ELSE written(serialize(new_writer, typst_tree.v))
      parsed(tex_tree) ==
        IF tex_tree.k # "Ok" THEN Propagate(tex_tree)
        ELSE converted(convert_tree(tex_tree.v))
  IN parsed(parse_tex(tex))

s_inline_open == <<BS, "(">>

s_inline_close == <<BS, ")">>

s_display_open == <<BS, "[">>

s_display_close == <<BS, "]">>

\* The match of  \\\((.+?)\\\)|(?s)\\\[(.+?)\\\]  that starts at i, None if
\* there is none: group 1 is one or more characters other than a newline,
\* group 2 one or more characters of any kind, both as short as possible.
math_match_at(s, i) ==
  LET inline == StartsWithAt(s, i, s_inline_open)
      display == StartsWithAt(s, i, s_display_open)
      close == IF inline THEN s_inline_close ELSE s_display_close
      ends == {j \in (i + 3)..Len(s) :
                 /\ StartsWithAt(s, j, close)
                 /\ inline => "\n" \notin Range(Slice(s, i + 2, j))}
  IN
  IF ~(inline \/ display) \/ ends = {} THEN None
  ELSE LET j == CHOOSE x \in ends : \A y \in ends : x <= y IN
       Some([group |-> IF inline THEN 1 ELSE 2, start |-> i, end |-> j + 2,
             content |-> Slice(s, i + 2, j)])

\* next_capture with the last match in place of the leftmost one
next_capture_last(s, pos) ==
  LET starts == {i \in pos..Len(s) : math_match_at(s, i) # None} IN
  IF starts = {} THEN None
  ELSE math_match_at(s, CHOOSE x \in starts : \A y \in starts : x >= y)

\* The next item of Regex::captures_iter when the search resumes at pos: the
\* leftmost match that starts at pos or later, None if there is none.
next_capture(s, pos) ==
  LET starts == {i \in pos..Len(s) : math_match_at(s, i) # None} IN
  IF starts = {} THEN None
  ELSE math_match_at(s, CHOOSE x \in starts : \A y \in starts : x <= y)

\* math_replacement with a failed span left out of the output
math_replacement_lenient(caps) ==
  LET format(typst_math) ==
        IF typst_math.k # "Ok" THEN Ok(<<>>)
        ELSE IF caps.group = 1 THEN Ok(<<"$">> \o typst_math.v \o <<"$">>)
        ELSE Ok(<<"$", "\n">> \o typst_math.v \o <<"\n", "$">>)
  IN format(tex2typst(trim(caps.content)))

\* the closure text_and_tex2typst gives to replace_all
math_replacement(caps) ==
  LET format(typst_math) ==
        IF typst_math.k # "Ok" THEN typst_math
        ELSE IF caps.group = 1 THEN Ok(<<"$">> \o typst_math.v \o <<"$">>)
        ELSE Ok(<<"$", "\n">> \o typst_math.v \o <<"\n", "$">>)
  IN format(tex2typst(trim(caps.content)))

(***************************************************************************)
(* command_registry.rs                                                     *)
(***************************************************************************)
UNARY_COMMANDS ==
  {<<"t","e","x","t">>, <<"b","a","r">>, <<"b","o","l","d">>,
   <<"b","o","l","d","s","y","m","b","o","l">>, <<"d","d","o","t">>, <<"d","o","t">>,
   <<"h","a","t">>, <<"m","a","t","h","b","b">>, <<"m","a","t","h","b","f">>,
   <<"m","a","t","h","c","a","l">>, <<"m","a","t","h","f","r","a","k">>,
   <<"m","a","t","h","i","t">>, <<"m","a","t","h","r","m">>,
   <<"m","a","t","h","s","c","r">>, <<"m","a","t","h","s","f">>,
   <<"m","a","t","h","t","t">>, <<"o","p","e","r","a","t","o","r","n","a","m","e">>,
   <<"o","v","e","r","b","r","a","c","e">>, <<"o","v","e","r","l","i","n","e">>,
   <<"p","m","b">>, <<"r","m">>, <<"t","i","l","d","e">>,
   <<"u","n","d","e","r","b","r","a","c","e">>, <<"u","n","d","e","r","l","i","n","e">>,
   <<"v","e","c">>, <<"o","v","e","r","r","i","g","h","t","a","r","r","o","w">>,
   <<"w","i","d","e","h","a","t">>, <<"w","i","d","e","t","i","l","d","e">>,
   <<"f","l","o","o","r">>}

BINARY_COMMANDS ==
  {<<"f","r","a","c">>, <<"t","f","r","a","c">>, <<"b","i","n","o","m">>,
   <<"d","b","i","n","o","m">>, <<"d","f","r","a","c">>, <<"t","b","i","n","o","m">>,
   <<"o","v","e","r","s","e","t">>}

OPTION_UNARY_COMMANDS == {}

OPTION_BINARY_COMMANDS == {<<"s","q","r","t">>}

\* A CustomMacro.  The boxed closure is represented by what it captures: the
\* definition text and the default value construct_custom_macro moved into it.
CustomMacro(name, command_type, definition, default_value) ==
  [name |-> name, command_type |-> command_type,
   definition |-> definition, default_value |-> default_value]

\* CommandRegistry::new
new_registry == [custom_macros |-> <<>>, custom_macro_names |-> {}]

\* HashMap::insert on a map kept as a set of <<key, value>> pairs
map_insert(m, key, value) == {e \in m : e[1] # key} \cup {<<key, value>>}

register_custom_macro(registry, custom_macro) ==
  [custom_macros |-> Append(registry.custom_macros, custom_macro),
   custom_macro_names |->
     map_insert(registry.custom_macro_names, custom_macro.name, custom_macro.command_type)]

RECURSIVE register_custom_macros(_, _)
register_custom_macros(registry, custom_macros) ==
  IF custom_macros = <<>> THEN registry
  ELSE register_custom_macros(register_custom_macro(registry, Head(custom_macros)),
                              Tail(custom_macros))

get_command_type(registry, command_name) ==
  IF command_name \in UNARY_COMMANDS THEN Some("Unary")
  ELSE IF command_name \in BINARY_COMMANDS THEN Some("Binary")
  ELSE IF command_name \in OPTION_BINARY_COMMANDS THEN Some("OptionalBinary")
  ELSE IF \E e \in registry.custom_macro_names : e[1] = command_name
  THEN Some((CHOOSE e \in registry.custom_macro_names : e[1] = command_name)[2])
  ELSE Some("Symbol")

\* the values of the tokens of an argument, concatenated
RECURSIVE token_values(_)
token_values(tokens) ==
  IF tokens = <<>> THEN <<>> ELSE Head(tokens).v \o token_values(Tail(tokens))

s_arg1 == <<"#", "1">>

s_arg2 == <<"#", "2">>

\* (custom_macro.implementation)(&arguments)
implementation(custom_macro, args) ==
  LET definition == custom_macro.definition
      default_value == custom_macro.default_value
  IN
  CASE custom_macro.command_type = "Symbol" -> tokenize(definition)
    [] custom_macro.command_type = "Unary" ->
         IF Len(args) < 1 THEN Panic(<<"index out of bounds">>)
         ELSE tokenize(Replace(definition, s_arg1, token_values(args[1])))
    [] custom_macro.command_type = "Binary" ->
         IF Len(args) < 2 THEN Panic(<<"index out of bounds">>)
         ELSE tokenize(Replace(Replace(definition, s_arg1, token_values(args[1])),
                               s_arg2, token_values(args[2])))
    [] custom_macro.command_type = "OptionalUnary" ->
         IF args = <<>> THEN tokenize(Replace(definition, s_arg1, default_value[1]))
         ELSE tokenize(Replace(definition, s_arg1, token_values(args[1])))
    [] custom_macro.command_type = "OptionalBinary" ->
         IF Len(args) = 1
         THEN tokenize(Replace(Replace(definition, s_arg1, default_value[1]),
                               s_arg2, token_values(args[1])))
         ELSE IF Len(args) = 2
         THEN tokenize(Replace(Replace(definition, s_arg1, token_values(args[1])),
                               s_arg2, token_values(args[2])))
         ELSE Err(<<"Expecting one or two arguments">>)

\* the loop of find_matching_right_curly_bracket_token and _char: items are
\* token values or characters
RECURSIVE find_matching_right_curly_bracket_loop(_, _, _, _, _)
find_matching_right_curly_bracket_loop(items, pos, count, open, close) ==
  IF count <= 0 THEN Some(pos - 1)
  ELSE IF pos >= Len(items) THEN None
  ELSE IF pos + 1 < Len(items) /\ At(items, pos) = BS /\ At(items, pos + 1) = close
  THEN find_matching_right_curly_bracket_loop(items, pos + 2, count, open, close)
  ELSE find_matching_right_curly_bracket_loop(items, pos + 1,
         IF At(items, pos) = open THEN count + 1
         ELSE IF At(items, pos) = close THEN count - 1
         ELSE count,
         open, close)

\* the count starts at 1 and the scan at start + 1
find_matching_right_curly_bracket_token(tokens, start) ==
  find_matching_right_curly_bracket_loop(
    [i \in 1..Len(tokens) |-> IF tokens[i].v = <<BS>> THEN BS
                              ELSE IF tokens[i].v = <<"{">> THEN "{"
                              ELSE IF tokens[i].v = <<"}">> THEN "}"
                              ELSE "other"],
    start + 1, 1, "{", "}")

find_matching_right_curly_bracket_char(latex, start) ==
  find_matching_right_curly_bracket_loop(latex, start + 1, 1, "{", "}")

\* the result of expand_command: the expansion and the position after the call
XOk(v, pos) == [k |-> "Ok", v |-> v, msg |-> <<>>, pos |-> pos]

XFail(r) == [k |-> r.k, v |-> <<>>, msg |-> r.msg, pos |-> 0]

\* the first position >= pos of a token whose value is "]", None if there is none
position_right_square(tokens, pos) ==
  LET S == {i \in pos..(Len(tokens) - 1) : At(tokens, i).v = <<"]">>} IN
  IF S = {} THEN None ELSE Some(CHOOSE i \in S : \A j \in S : i <= j)

RECURSIVE expand_macros_loop(_, _, _, _), expand_command(_, _, _, _)
RECURSIVE curly_argument(_, _, _, _), square_argument(_, _, _, _, _)

\* arguments.push(self.expand_macros(argument)?), the argument ending at
\* right: the expanded argument and the position after the closing bracket
expanded_argument(e, right) ==
  IF e.k # "Ok" THEN XFail(e) ELSE XOk(e.v, right + 1)

\* the argument tokens[pos..right], None for right being the bracket not found
argument_until(custom_macros, tokens, pos, right, message) ==
  IF right = None THEN XFail(Err(message))
  ELSE expanded_argument(
         expand_macros_loop(custom_macros, Slice(tokens, pos, right[1]), 0, <<>>),
         right[1])

\* An argument in curly brackets whose opening bracket is at pos - 1.
curly_argument(custom_macros, tokens, pos, command_name) ==
  argument_until(custom_macros, tokens, pos,
                 find_matching_right_curly_bracket_token(tokens, pos),
                 <<"Unmatched curly brackets for command {}", command_name>>)

\* An optional argument whose opening bracket is at pos - 1: it ends at the
\* first token whose value is "]".
square_argument(custom_macros, tokens, pos, command_name, message) ==
  argument_until(custom_macros, tokens, pos, position_right_square(tokens, pos),
                 <<message, command_name>>)

\* the argument list made of one argument
one_argument(a) == IF a.k # "Ok" THEN a ELSE XOk(<<a.v>>, a.pos)

\* the argument list made of two arguments
two_arguments(a, b) == IF b.k # "Ok" THEN b ELSE XOk(<<a.v, b.v>>, b.pos)

\* the argument in curly brackets that follows the argument a
second_argument(custom_macros, tokens, a, command_name, message) ==
  IF a.k # "Ok" THEN a
  ELSE IF a.pos >= Len(tokens) THEN XFail(Panic(<<"index out of bounds">>))
  ELSE IF At(tokens, a.pos).v # <<"{">> THEN XFail(Err(<<message, command_name>>))
  ELSE two_arguments(a, curly_argument(custom_macros, tokens, a.pos + 1, command_name))

\* the arguments of the call at pos - 1 and the position after them: v is the
\* argument list
command_arguments(custom_macros, tokens, command_type, command_name, pos) ==
  CASE command_type = "Symbol" -> XOk(<<>>, pos)
    [] command_type = "Unary" ->
         IF pos >= Len(tokens) THEN XFail(Panic(<<"index out of bounds">>))
         ELSE IF At(tokens, pos).v # <<"{">>
         THEN XFail(Err(<<"Expecting one argument for command {}", command_name>>))
         ELSE one_argument(curly_argument(custom_macros, tokens, pos + 1, command_name))
    [] command_type = "Binary" ->
         IF pos >= Len(tokens) THEN XFail(Panic(<<"index out of bounds">>))
         ELSE IF At(tokens, pos).v # <<"{">>
         THEN XFail(Err(<<"No argument provided for command {}", command_name>>))
         ELSE second_argument(custom_macros, tokens,
                curly_argument(custom_macros, tokens, pos + 1, command_name),
                command_name, "Expecting two arguments for command {}")
    [] command_type = "OptionalUnary" ->
         IF pos >= Len(tokens) THEN XFail(Panic(<<"index out of bounds">>))
         ELSE IF At(tokens, pos).v = <<"[">>
         THEN one_argument(square_argument(custom_macros, tokens, pos + 1, command_name,
                             "Unmatched right square brackets for command {}"))
         ELSE XOk(<<>>, pos)
    [] command_type = "OptionalBinary" ->
         IF pos >= Len(tokens) THEN XFail(Panic(<<"index out of bounds">>))
         ELSE IF At(tokens, pos).v = <<"[">>
         THEN second_argument(custom_macros, tokens,
                square_argument(custom_macros, tokens, pos + 1, command_name,
                                "Unmatched square brackets for command {}"),
                command_name,
                "Expecting the mandatory argument after the optional argument for command {}")
         ELSE IF At(tokens, pos).v = <<"{">>
         THEN one_argument(curly_argument(custom_macros, tokens, pos + 1, command_name))
         ELSE XFail(Err(<<"Expecting optional or mandatory argument for command {}",
                          command_name>>))

\* (custom_macro.implementation)(&arguments)?, and the position after the call
implemented(expanded_tokens, pos) ==
  IF expanded_tokens.k # "Ok" THEN XFail(expanded_tokens)
  ELSE XOk(expanded_tokens.v, pos)

apply_implementation(custom_macro, arguments) ==
  IF arguments.k # "Ok" THEN arguments
  ELSE implemented(implementation(custom_macro, arguments.v), arguments.pos)

\* the arguments looked for at the command itself: a Symbol call does not
\* move the position
expand_command_in_place(custom_macros, tokens, custom_macro, start) ==
  apply_implementation(custom_macro,
    command_arguments(custom_macros, tokens, custom_macro.command_type,
                      At(tokens, start).v, start))

expand_command(custom_macros, tokens, custom_macro, start) ==
  apply_implementation(custom_macro,
    command_arguments(custom_macros, tokens, custom_macro.command_type,
                      At(tokens, start).v, start + 1))

\* the first registered macro of that name, None if there is none
find_macro(custom_macros, name) ==
  LET S == {i \in 1..Len(custom_macros) : custom_macros[i].name = name} IN
  IF S = {} THEN None ELSE Some(custom_macros[CHOOSE i \in S : \A j \in S : i <= j])

\* the macro a token calls, None if it calls none
called_macro(custom_macros, token) ==
  IF token.t = "Command" THEN find_macro(custom_macros, token.v) ELSE None

\* expanded_tokens.extend(expanded_command); pos = new_pos
extend_expanded(custom_macros, tokens, expanded_tokens, x) ==
  IF x.k # "Ok" THEN Propagate(x)
  ELSE expand_macros_loop(custom_macros, tokens, x.pos, expanded_tokens \o x.v)

\* one turn of the loop of expand_macros
expand_token(custom_macros, tokens, pos, expanded_tokens, custom_macro) ==
  IF custom_macro = None
  THEN expand_macros_loop(custom_macros, tokens, pos + 1,
                          Append(expanded_tokens, At(tokens, pos)))
  ELSE extend_expanded(custom_macros, tokens, expanded_tokens,
                       expand_command(custom_macros, tokens, custom_macro[1], pos))

expand_macros_loop(custom_macros, tokens, pos, expanded_tokens) ==
  IF pos >= Len(tokens) THEN Ok(expanded_tokens)
  ELSE expand_token(custom_macros, tokens, pos, expanded_tokens,
                    called_macro(custom_macros, At(tokens, pos)))

expand_macros(registry, tokens) ==
  expand_macros_loop(registry.custom_macros, tokens, 0, <<>>)

s_newcommand == <<BS, "n", "e", "w", "c", "o", "m", "m", "a", "n", "d">>

DigitValue(c) ==
  CASE c = "0" -> 0 [] c = "1" -> 1 [] c = "2" -> 2 [] c = "3" -> 3 [] c = "4" -> 4
    [] c = "5" -> 5 [] c = "6" -> 6 [] c = "7" -> 7 [] c = "8" -> 8 [] c = "9" -> 9

RECURSIVE DecimalValue(_, _)
DecimalValue(s, acc) ==
  IF s = <<>> THEN acc ELSE DecimalValue(Tail(s), acc * 10 + DigitValue(Head(s)))

\* str::parse::<usize> followed by map_err(|e| e.to_string())
parse_usize(s) ==
  IF s = <<>> THEN Err(<<"cannot parse integer from empty string">>)
  ELSE
    LET digits == IF Head(s) = "+" THEN Tail(s) ELSE s IN
    IF digits = <<>> \/ \E i \in 1..Len(digits) : ~is_digit(digits[i])
    THEN Err(<<"invalid digit found in string">>)
    ELSE Ok(DecimalValue(digits, 0))

construct_custom_macro(new_command_name, num_of_args, default_value, definition) ==
  IF default_value # None
  THEN CASE num_of_args = 0 ->
              Err(<<"Default value provided for a command with no arguments">>)
         [] num_of_args = 1 ->
              Ok(CustomMacro(new_command_name, "OptionalUnary", definition, default_value))
         [] num_of_args = 2 ->
              Ok(CustomMacro(new_command_name, "OptionalBinary", definition, default_value))
         [] OTHER -> Err(<<"Only unary and binary commands are supported">>)
  ELSE CASE num_of_args = 0 -> Ok(CustomMacro(new_command_name, "Symbol", definition, None))
         [] num_of_args = 1 -> Ok(CustomMacro(new_command_name, "Unary", definition, None))
         [] num_of_args = 2 -> Ok(CustomMacro(new_command_name, "Binary", definition, None))
         [] OTHER -> Err(<<"Only unary and binary commands are supported">>)

\* the first position >= pos of the character "]", None if there is none
position_right_square_char(latex, pos) ==
  LET S == {i \in pos..(Len(latex) - 1) : At(latex, i) = "]"} IN
  IF S = {} THEN None ELSE Some(CHOOSE i \in S : \A j \in S : i <= j)

\* parse_custom_macros, "extract the definition": pos is the position after
\* the default value; the macro and the position of its last character
macro_body(latex, new_command_name, num_of_args, default_value, pos) ==
  LET constructed(m, right_curly_bracket_pos) ==
        IF m.k # "Ok" THEN XFail(m) ELSE XOk(m.v, right_curly_bracket_pos)
      definition(right_curly_bracket_pos) ==
        IF right_curly_bracket_pos = None THEN XFail(Err(<<"Unmatched curly brackets">>))
        ELSE constructed(
               construct_custom_macro(new_command_name, num_of_args, default_value,
                                      Slice(latex, pos + 1, right_curly_bracket_pos[1])),
               right_curly_bracket_pos[1])
  IN
  IF pos >= Len(latex) THEN XFail(Panic(<<"index out of bounds">>))
  ELSE IF At(latex, pos) # "{" THEN XFail(Err(<<"Expecting { before the definition">>))
  ELSE definition(find_matching_right_curly_bracket_char(latex, pos + 1))

\* parse_custom_macros, "check if there is a default value for the first
\* argument": pos is the position after the number of arguments
macro_default_value(latex, new_command_name, num_of_args, pos) ==
  LET default_value(right_square_bracket) ==
        IF right_square_bracket = None THEN XFail(Err(<<"Unmatched square brackets">>))
        ELSE macro_body(latex, new_command_name, num_of_args,
                        Some(Slice(latex, pos + 1, right_square_bracket[1])),
                        right_square_bracket[1] + 1)
  IN
  IF pos >= Len(latex) THEN XFail(Panic(<<"index out of bounds">>))
  ELSE IF At(latex, pos) = "["
  THEN default_value(position_right_square_char(latex, pos + 1))
  ELSE macro_body(latex, new_command_name, num_of_args, None, pos)

\* parse_custom_macros, "check if there is a specification of number of
\* arguments": pos is the position after the closing bracket of the name
macro_num_of_args(latex, new_command_name, pos) ==
  LET parsed(num_of_args, next_pos) ==
        IF num_of_args.k # "Ok" THEN XFail(num_of_args)
        ELSE IF num_of_args.v > 2
        THEN XFail(Err(<<"Only unary and binary commands are supported">>))
        ELSE macro_default_value(latex, new_command_name, num_of_args.v, next_pos)
      specification(right_square_bracket) ==
        IF right_square_bracket = None THEN XFail(Err(<<"Unmatched square brackets">>))
        ELSE parsed(parse_usize(Slice(latex, pos + 1, right_square_bracket[1])),
                    right_square_bracket[1] + 1)
  IN
  IF pos >= Len(latex) THEN XFail(Panic(<<"index out of bounds">>))
  ELSE IF At(latex, pos) = "["
  THEN specification(position_right_square_char(latex, pos + 1))
  ELSE macro_default_value(latex, new_command_name, 0, pos)

\* one definition: pos is the position after the pattern \newcommand
macro_definition(latex, pos) ==
  LET named(right_curly_bracket_pos) ==
        IF right_curly_bracket_pos = None THEN XFail(Err(<<"Unmatched curly brackets">>))
        ELSE macro_num_of_args(latex, Slice(latex, pos + 1, right_curly_bracket_pos[1]),
                               right_curly_bracket_pos[1] + 1)
  IN
  IF At(latex, pos) # "{" THEN XFail(Err(<<"Expecting { after ", BS, "newcommand">>))
  ELSE IF pos + 1 >= Len(latex) THEN XFail(Panic(<<"index out of bounds">>))
  ELSE IF At(latex, pos + 1) # BS THEN XFail(Err(<<"Expecting backslash after {">>))
  ELSE named(find_matching_right_curly_bracket_char(latex, pos + 1))

saturating_sub(a, b) == IF a >= b THEN a - b ELSE 0

RECURSIVE parse_custom_macros_loop(_, _, _)
parse_custom_macros_loop(latex, pos, custom_macros) ==
  LET pushed(m) ==
        IF m.k # "Ok" THEN Propagate(m)
        ELSE parse_custom_macros_loop(latex, m.pos + 1, Append(custom_macros, m.v))
  IN
  IF pos >= saturating_sub(Len(latex), Len(s_newcommand)) THEN Ok(custom_macros)
  ELSE IF ~StartsWithAt(latex, pos, s_newcommand)
  THEN parse_custom_macros_loop(latex, pos + 1, custom_macros)
  ELSE pushed(macro_definition(latex, pos + Len(s_newcommand)))

parse_custom_macros(latex) == parse_custom_macros_loop(latex, 0, <<>>)

(***************************************************************************)
(* The state machine                                                       *)
(*                                                                         *)
(* One call of an entry point at a time.  pc is the position in the call;  *)
(* result is what the call returned: k = "Ok" or "Err" for a returned      *)
(* value, "Panic" when the process aborted, "Running" until then.          *)
(***************************************************************************)
VARIABLES
  pc,                 \* the position in the call
  tex,                \* tex2typst, tex2typst_with_macros: the argument tex
  tokens,             \* the token stream the parser is given
  tex_tree,           \* lib.rs: tex_tree
  typst_tree,         \* lib.rs: typst_tree
  writer,             \* lib.rs: writer
  result,             \* the value the call returned
  macro_definitions,  \* tex2typst_with_macros, parse_custom_macros: the definitions text
  custom_macros,      \* parse_custom_macros: custom_macros
  registry,           \* tex2typst_with_macros: registry
  pos,                \* expand_macros, parse_custom_macros: pos
  expanded_tokens,    \* expand_macros: expanded_tokens
  input,              \* text_and_tex2typst: input
  last_match,         \* replace_all: last_match
  new,                \* replace_all: new
  shorthands,         \* tex2typst_with_shorthands: shorthands
  results             \* LatexParser::parse: results

vars ==
  <<pc, tex, tokens, tex_tree, typst_tree, writer, result, macro_definitions,
    custom_macros, registry, pos, expanded_tokens, input, last_match, new, shorthands,
    results>>

Running == [k |-> "Running", v |-> <<>>, msg |-> <<>>]

Done == pc = "done"

\* the sequences of at most n elements of S
SeqsUpTo(S, n) == UNION {[1..k -> S] : k \in 0..n}

\* the variables of a call that has computed nothing yet
PipelineBlank ==
  /\ tokens = <<>>
  /\ results = <<>>
  /\ tex_tree = None
  /\ typst_tree = None
  /\ writer = new_writer
  /\ result = Running

MacrosBlank ==
  /\ macro_definitions = <<>>
  /\ custom_macros = <<>>
  /\ registry = new_registry
  /\ pos = 0
  /\ expanded_tokens = <<>>

DocumentBlank ==
  /\ input = <<>>
  /\ last_match = 0
  /\ new = <<>>

ShorthandsBlank == shorthands = <<>>

\* the call returns r
Return(r) ==
  /\ result' = Propagate(r)
  /\ pc' = "done"

(***************************************************************************)
(* tex2typst                                                               *)
(***************************************************************************)
\* the longest word of TexLexemes an input is made of
MaxTexLen == 4

TexLexemes ==
  {<<"a">>, <<"1">>, <<"+">>, <<" ">>, <<"{">>, <<"}">>, <<"_">>, <<"^">>, <<"'">>, <<"&">>, cmd_frac}

\* longer inputs: the commands, delimiters and environments of the parser
TexSamples ==
  {<<"a", "^", "a", "'">>,
   <<"a", "'", "_", "a", "'", "a">>,
   <<"{", "{", "a", "}", "}">>,
   <<"{", "a", "}", "_", "{", "a", "+", "a", "}", "^", "{", "a", "}">>,
   cmd_frac \o <<"{", "a", "}", "{", "a", "}">>,
   cmd_frac \o <<"{", "a", "}">>,
   cmd_sqrt,
   cmd_sqrt \o <<"[", "3", "]", "{", "a", "}">>,
   cmd_sqrt \o <<"[", "3">>,
   cmd_begin \o <<"{", "x", "}", "a">>,
   cmd_begin \o <<"{", "x", "}", "a", "&", "a">> \o cmd_end \o <<"{", "x", "}">>,
   cmd_begin \o <<"{", "x", "}", "a">> \o cmd_end \o <<"{", "y", "}">>,
   cmd_end \o <<"{", "x", "}">>,
   cmd_left \o <<"(", "a">> \o cmd_right \o <<")">>,
   cmd_left \o <<"(", "a">>,
   cmd_left \o <<"a">> \o cmd_right \o <<")">>,
   cmd_right \o <<")">>,
   cmd_text \o <<"{", "a", " ", "b", "}">>,
   cmd_text \o <<" ", "{", "a", "}">>,
   cmd_text \o <<"{", "a">>,
   <<"a", BS>>,
   <<"~", "a", "b", "c", "d", "e", "f", "g", "h", "i", "j", "k", "l", "m">>,
   <<"é", "a", "b">>,
   <<"a", ",", "1", "2", "=", "(", "b", ")">>,
   <<BS, "l", "f", "l", "o", "o", "r", " ", "a", BS, "r", "f", "l", "o", "o", "r">>,
   <<"a", "\t", "b">>}

\* the two ways of writing a floor, around the expression X
left_floor(X) == <<BS, "l", "e", "f", "t", BS, "l", "f", "l", "o", "o", "r", " ">> \o X \o <<" ", BS, "r", "i", "g", "h", "t", BS, "r", "f", "l", "o", "o", "r">>

floor_command(X) == <<BS, "f", "l", "o", "o", "r", "{">> \o X \o <<"}">>

FloorBodies == {<<"a">>, <<"a", "+", "1">>, <<BS, "f", "r", "a", "c", "{", "a", "}", "{", "b", "}">>, <<BS, "l", "e", "f", "t", BS, "l", "f", "l", "o", "o", "r", " ", "a", " ", BS, "r", "i", "g", "h", "t", BS, "r", "f", "l", "o", "o", "r">>}

test_floor == <<BS, "l", "e", "f", "t", BS, "l", "f", "l", "o", "o", "r", " ", BS, "f", "r", "a", "c", "{", "a", "}", "{", "b", "}", " ", BS, "r", "i", "g", "h", "t", BS, "r", "f", "l", "o", "o", "r", " ", BS, "f", "l", "o", "o", "r", "{", BS, "f", "r", "a", "c", "{", "a", "}", "{", "b", "}", "}">>

FloorInputs ==
  {left_floor(X) : X \in FloorBodies} \cup {floor_command(X) : X \in FloorBodies}
    \cup {test_floor}

\* the environments of the claim on \begin ... \end
aligned_two_rows == <<BS, "b", "e", "g", "i", "n", "{", "a", "l", "i", "g", "n", "e", "d", "}", " ", "a", " ", "&", " ", "b", " ", BS, BS, " ", "c", " ", BS, "e", "n", "d", "{", "a", "l", "i", "g", "n", "e", "d", "}">>

test_cn_chars == <<BS, "b", "e", "g", "i", "n", "{", "a", "l", "i", "g", "n", "e", "d", "}", "a", "s", "d", " ", BS, "e", "n", "d", "{", "a", "l", "i", "g", "n", "e", "d", "}">>

AlignedInputs == {aligned_two_rows, test_cn_chars, <<BS, "b", "e", "g", "i", "n", "{", "a", "l", "i", "g", "n", "e", "d", "}", " ", "a", " ", BS, "e", "n", "d", "{", "a", "l", "i", "g", "n", "e", "d", "}">>}

\* a base with two scripts: both kinds in either order, the same kind twice,
\* and a prime after a superscript
ScriptInputs == {<<"a", "_", "b", "^", "c">>, <<"a", "^", "b", "_", "c">>, <<"a", "^", "b", "^", "c">>, <<"a", "_", "b", "_", "c">>, <<"a", "^", "b", "'">>}

\* \left L x \right R for the pairs of delimiters of the converter's cases
LeftRightCases ==
  {[tex |-> <<BS, "l", "e", "f", "t", "(", " ", "x", " ", BS, "r", "i", "g", "h", "t", ")">>, kind |-> "pair"],
   [tex |-> <<BS, "l", "e", "f", "t", "[", " ", "x", " ", BS, "r", "i", "g", "h", "t", "]">>, kind |-> "pair"],
   [tex |-> <<BS, "l", "e", "f", "t", BS, "{", " ", "x", " ", BS, "r", "i", "g", "h", "t", BS, "}">>, kind |-> "pair"],
   [tex |-> <<BS, "l", "e", "f", "t", BS, "l", "f", "l", "o", "o", "r", " ", "x", " ", BS, "r", "i", "g", "h", "t", BS, "r", "f", "l", "o", "o", "r">>, kind |-> "pair"],
   [tex |-> <<BS, "l", "e", "f", "t", BS, "l", "c", "e", "i", "l", " ", "x", " ", BS, "r", "i", "g", "h", "t", BS, "r", "c", "e", "i", "l">>, kind |-> "pair"],
   [tex |-> <<BS, "l", "e", "f", "t", "(", " ", "x", " ", BS, "r", "i", "g", "h", "t", ".">>, kind |-> "right_dot"],
   [tex |-> <<BS, "l", "e", "f", "t", ".", " ", "x", " ", BS, "r", "i", "g", "h", "t", ")">>, kind |-> "left_dot"],
   [tex |-> <<BS, "l", "e", "f", "t", ".", " ", "x", " ", BS, "r", "i", "g", "h", "t", ".">>, kind |-> "both_dots"],
   [tex |-> <<BS, "l", "e", "f", "t", "(", " ", "x", " ", BS, "r", "i", "g", "h", "t", "]">>, kind |-> "other"],
   [tex |-> <<BS, "l", "e", "f", "t", "|", " ", "x", " ", BS, "r", "i", "g", "h", "t", "|">>, kind |-> "other"],
   [tex |-> <<BS, "l", "e", "f", "t", BS, "l", "f", "l", "o", "o", "r", " ", "x", " ", BS, "r", "i", "g", "h", "t", BS, "r", "c", "e", "i", "l">>, kind |-> "other"]}

LeftRightInputs == {c.tex : c \in LeftRightCases}

\* scripts of the base e, each followed by a parenthesis, by the tokens that
\* end a clause, by another token and by nothing
ScriptForms ==
  {<<"_", "f">>, <<"^", "f">>, <<"_", "f", "^", "g">>, <<"^", "f", "_", "g">>, <<"_", "{", "f", "}">>, <<"_", "{", "f", "g", "}">>, <<"_", "{", "(", "f", ")", "}">>, <<"_", BS, "a", "l", "p", "h", "a">>, <<"^", "{", "f", "_", "g", "}">>, <<"_", "1">>, <<"_", "{", "f", " ", "(", "x", ")", "}">>, <<"'">>}

ScriptFollowers == {<<"(", "x", ")">>, <<" ", "(", "x", ")">>, <<",", "(", "x", ")">>, <<>>, <<" ", "c">>, <<"+", "(", "x", ")">>}

ScriptCallInputs ==
  {<<"e">> \o s \o f : s \in ScriptForms, f \in ScriptFollowers}
    \cup {<<BS, "s", "u", "m", "_", "{", "i", "=", "1", "}", "^", "n", " ", "i">>, <<"(", "a", "_", "b", ")", "(", "x", ")">>, <<BS, "s", "q", "r", "t", "{", "a", "_", "b", "}", "(", "x", ")">>, <<"a", "'", "_", "b", "(", "x", ")">>, <<BS, "f", "r", "a", "c", "{", "a", "_", "b", "}", "{", "c", "}", "(", "x", ")">>}

\* the floor and ceiling delimiters around a, in every order
MaxDelimiters == 3

DelimiterLexemes == {<<BS, "l", "f", "l", "o", "o", "r", " ">>, <<BS, "r", "f", "l", "o", "o", "r", " ">>, <<BS, "l", "c", "e", "i", "l", " ">>, <<BS, "r", "c", "e", "i", "l", " ">>, <<"a", " ">>}

nested_floor == <<BS, "l", "e", "f", "t", BS, "l", "f", "l", "o", "o", "r", " ", BS, "l", "e", "f", "t", BS, "l", "f", "l", "o", "o", "r", " ", "a", " ", BS, "r", "i", "g", "h", "t", BS, "r", "f", "l", "o", "o", "r", " ", BS, "r", "i", "g", "h", "t", BS, "r", "f", "l", "o", "o", "r">>

DelimiterInputs ==
  {Concat(w) : w \in SeqsUpTo(DelimiterLexemes, MaxDelimiters)}
    \cup {nested_floor, <<BS, "l", "e", "f", "t", BS, "l", "f", "l", "o", "o", "r", " ", "a", " ", BS, "r", "i", "g", "h", "t", BS, "r", "c", "e", "i", "l">>, <<BS, "l", "e", "f", "t", BS, "l", "f", "l", "o", "o", "r", " ", BS, "r", "i", "g", "h", "t", BS, "r", "f", "l", "o", "o", "r">>,
          <<BS, "l", "f", "l", "o", "o", "r", " ", "a", " ", BS, "r", "f", "l", "o", "o", "r", " ", "+", " ", BS, "l", "f", "l", "o", "o", "r", " ", "b", " ", BS, "r", "f", "l", "o", "o", "r">>}

\* primes before and after a subscript, and before a superscript
PrimeInputs ==
  {<<"a", "'", "_", "b", "'", "c">>, <<"a", "'", "_", "b", " ", "c">>, <<"a", "'", "'", "_", "b", " ", "c">>, <<"a", "_", "b", "'", "c">>, <<"a", "'", "^", "b", " ", "c">>, <<"a", "'", "c">>, <<"a", "_", "b", "^", "c", "'">>, <<"a", "'", "_", "b", "'">>}

\* \overbrace and \underbrace with the scripts p above and q below
BraceInputs ==
  {<<BS, "o", "v", "e", "r", "b", "r", "a", "c", "e", "{", "a", "}", "^", "{", "p", "}", "_", "{", "q", "}">>, <<BS, "o", "v", "e", "r", "b", "r", "a", "c", "e", "{", "a", "}", "_", "{", "q", "}", "^", "{", "p", "}">>, <<BS, "u", "n", "d", "e", "r", "b", "r", "a", "c", "e", "{", "a", "}", "_", "{", "q", "}", "^", "{", "p", "}">>,
   <<BS, "u", "n", "d", "e", "r", "b", "r", "a", "c", "e", "{", "a", "}", "^", "{", "p", "}", "_", "{", "q", "}">>, <<BS, "o", "v", "e", "r", "b", "r", "a", "c", "e", "{", "a", "}", "^", "{", "p", "}">>, <<BS, "u", "n", "d", "e", "r", "b", "r", "a", "c", "e", "{", "a", "}", "_", "{", "q", "}">>, <<BS, "o", "v", "e", "r", "b", "r", "a", "c", "e", "{", "a", "}", "_", "{", "q", "}">>,
   <<BS, "u", "n", "d", "e", "r", "b", "r", "a", "c", "e", "{", "a", "}", "^", "{", "p", "}">>, <<BS, "o", "v", "e", "r", "b", "r", "a", "c", "e", "{", "a", "}">>, <<BS, "o", "v", "e", "r", "b", "r", "a", "c", "e", "{", "a", "+", "1", "}", "^", "{", "p", "+", "1", "}", "_", "{", "q", "}">>}

\* fractions in fractions
frac_in_denominator == <<BS, "f", "r", "a", "c", "{", "a", "}", "{", BS, "f", "r", "a", "c", "{", "b", "}", "{", "c", "}", "}">>

frac_in_numerator == <<BS, "f", "r", "a", "c", "{", BS, "f", "r", "a", "c", "{", "a", "}", "{", "b", "}", "}", "{", "c", "}">>

FractionInputs ==
  {frac_in_denominator, frac_in_numerator, <<BS, "f", "r", "a", "c", "{", "a", "+", "1", "}", "{", BS, "f", "r", "a", "c", "{", "b", "}", "{", "c", "}", "}">>, <<BS, "f", "r", "a", "c", "{", "a", "}", "{", "b", "+", "c", "}">>,
   <<BS, "f", "r", "a", "c", "{", BS, "f", "r", "a", "c", "{", "a", "}", "{", "b", "}", "}", "{", BS, "f", "r", "a", "c", "{", "c", "}", "{", "d", "}", "}">>, <<BS, "s", "q", "r", "t", "{", BS, "f", "r", "a", "c", "{", "a", "}", "{", BS, "f", "r", "a", "c", "{", "b", "}", "{", "c", "}", "}", "}">>}

TexInputs ==
  {Concat(w) : w \in SeqsUpTo(TexLexemes, MaxTexLen)} \cup TexSamples \cup FloorInputs
    \cup AlignedInputs \cup ScriptInputs \cup LeftRightInputs \cup ScriptCallInputs
    \cup DelimiterInputs \cup PrimeInputs
    \cup BraceInputs \cup FractionInputs

Init ==
  /\ pc = "tokenize"
  /\ tex \in TexInputs
  /\ PipelineBlank
  /\ ShorthandsBlank
  /\ MacrosBlank
  /\ DocumentBlank

\* parse_tex: tokenize and the two passes over the tokens
Tokenize ==
  /\ pc = "tokenize"
  /\ LET t == parser_tokenize(tex)
         e == IF t.k # "Ok" THEN t
              ELSE pass_expand_custom_tex_macros(
                     pass_ignore_whitespace_before_script_mark(t.v), {})
     IN
     IF e.k = "Ok"
     THEN /\ tokens' = e.v
          /\ pc' = "parse"
          /\ UNCHANGED result
     ELSE /\ Return(e)
          /\ UNCHANGED tokens
  /\ UNCHANGED <<tex, shorthands, results, tex_tree, typst_tree, writer, macro_definitions, custom_macros,
                 registry, pos, expanded_tokens, input, last_match, new>>

\* parser.parse(tokens)
Parse ==
  /\ pc = "parse"
  /\ LET t == parse(tokens) IN
     IF t.k = "Ok"
     THEN /\ tex_tree' = Some(t.v)
          /\ pc' = "convert"
          /\ UNCHANGED result
     ELSE /\ Return(t)
          /\ UNCHANGED tex_tree
  /\ UNCHANGED <<tex, shorthands, results, tokens, typst_tree, writer, macro_definitions, custom_macros,
                 registry, pos, expanded_tokens, input, last_match, new>>

\* converter::convert_tree(&tex_tree)
Convert ==
  /\ pc = "convert"
  /\ LET t == convert_tree(tex_tree[1]) IN
     IF t.k = "Ok"
     THEN /\ typst_tree' = Some(t.v)
          /\ pc' = "serialize"
          /\ UNCHANGED result
     ELSE /\ Return(t)
          /\ UNCHANGED typst_tree
  /\ UNCHANGED <<tex, shorthands, results, tokens, tex_tree, writer, macro_definitions, custom_macros,
                 registry, pos, expanded_tokens, input, last_match, new>>

\* writer.serialize(&typst_tree)
Serialize ==
  /\ pc = "serialize"
  /\ LET w == serialize(writer, typst_tree[1]) IN
     IF w.k = "Ok"
     THEN /\ writer' = w.v
          /\ pc' = "finalize"
          /\ UNCHANGED result
     ELSE /\ Return(w)
          /\ UNCHANGED writer
  /\ UNCHANGED <<tex, shorthands, results, tokens, tex_tree, typst_tree, macro_definitions, custom_macros,
                 registry, pos, expanded_tokens, input, last_match, new>>

\* writer.finalize(), and the call returns its text
Finalize ==
  /\ pc = "finalize"
  /\ writer' = [flush_queue(writer) EXCEPT !.buffer = finalize(writer).v]
  /\ result' = finalize(writer)
  /\ pc' = "done"
  /\ UNCHANGED <<tex, shorthands, results, tokens, tex_tree, typst_tree, macro_definitions, custom_macros,
                 registry, pos, expanded_tokens, input, last_match, new>>

Next == Tokenize \/ Parse \/ Convert \/ Serialize \/ Finalize

Spec == Init /\ [][Next]_vars

(***************************************************************************)
(* Claims about tex2typst                                                  *)
(***************************************************************************)
\* open and close are balanced in s from position i on, depth being open
RECURSIVE BalancedFrom(_, _, _, _, _)
BalancedFrom(s, i, depth, open, close) ==
  IF i >= Len(s) THEN depth = 0
  ELSE IF At(s, i) = open THEN BalancedFrom(s, i + 1, depth + 1, open, close)
  ELSE IF At(s, i) = close THEN depth > 0 /\ BalancedFrom(s, i + 1, depth - 1, open, close)
  ELSE BalancedFrom(s, i + 1, depth, open, close)

Balanced(s) ==
  /\ BalancedFrom(s, 0, 0, "{", "}")
  /\ BalancedFrom(s, 0, 0, "[", "]")
  /\ BalancedFrom(s, 0, 0, "(", ")")

\* the name that starts at position i and ends before the next }
EnvName(s, i) == Slice(s, i, RunEndNot(s, i, {"}"}))

\* every \end{n} closes the innermost open \begin{n}, and none stays open
RECURSIVE EnvNamesMatchFrom(_, _, _)
EnvNamesMatchFrom(s, i, open) ==
  IF i >= Len(s) THEN open = <<>>
  ELSE IF StartsWithAt(s, i, cmd_begin \o <<"{">>)
  THEN EnvNamesMatchFrom(s, i + 1, <<EnvName(s, i + 7)>> \o open)
  ELSE IF StartsWithAt(s, i, cmd_end \o <<"{">>)
  THEN /\ open # <<>>
       /\ Head(open) = EnvName(s, i + 5)
       /\ EnvNamesMatchFrom(s, i + 1, Tail(open))
  ELSE EnvNamesMatchFrom(s, i + 1, open)

EnvNamesMatch(s) == EnvNamesMatchFrom(s, 0, <<>>)

C1_Malformed ==
  {<<"{">>, <<"}">>, <<"&">>, <<"a", "^", "a", "'">>, <<"a", "_">>, <<"a", "^">>,
   cmd_sqrt, cmd_frac, cmd_begin \o <<"{", "x", "}", "a">>}

\* C1: every call of tex2typst ends in a returned Ok(text) or a returned
\* Err(message), no stage aborts the process, and each of the listed malformed
\* inputs (an unmatched brace, an & outside an environment, a prime after a
\* superscript, a script mark or a command as the last token, a \begin without
\* its \end) yields Err.
C1_ReturnsOkOrErr ==
  Done => /\ result.k \in {"Ok", "Err"}
          /\ tex \in C1_Malformed => result.k = "Err"

\* the call on the input } has ended, and it ended by aborting
C1_AbortReached == Done /\ tex = <<"}">> /\ result.k = "Panic"

PlainChars ==
  LowerLetters \cup UpperLetters \cup Digits \cup {" ", "+", "{", "}", "_", "^"}

\* every _ and ^ of s has an operand: the next character that is not a space
\* exists and is not }
ScriptsHaveOperands(s) ==
  \A i \in 0..(Len(s) - 1) :
    At(s, i) \in {"_", "^"} =>
      LET j == RunEnd(s, i + 1, {" "}) IN j < Len(s) /\ At(s, j) # "}"

PlainBalanced(s) ==
  /\ Range(s) \subseteq PlainChars
  /\ BalancedFrom(s, 0, 0, "{", "}")
  /\ ScriptsHaveOperands(s)

MaxDocLen == 3

\* pieces of documents: plain text, inline and display spans that convert,
\* spans that do not, and delimiters that match nothing
DocSegments ==
  {<<"x">>, <<" ">>, <<"\n">>,
   s_inline_open \o <<"a">> \o s_inline_close,
   s_inline_open \o <<" ", "a", "_", "1", " ">> \o s_inline_close,
   s_display_open \o <<"a">> \o s_display_close,
   s_display_open \o <<"\n", "a", "+", "a", "\n">> \o s_display_close,
   s_inline_open \o <<"a", BS>> \o s_inline_close,
   s_display_open \o cmd_text \o <<"{", "a">> \o s_display_close,
   s_inline_open \o <<"}">> \o s_inline_close,
   s_inline_open, s_inline_close, s_display_open}

DocInputs == {Concat(w) : w \in SeqsUpTo(DocSegments, MaxDocLen)}

InitDoc ==
  /\ pc = "scan"
  /\ input \in DocInputs
  /\ last_match = 0
  /\ new = <<>>
  /\ tex = <<>>
  /\ PipelineBlank
  /\ ShorthandsBlank
  /\ MacrosBlank

\* replace_all: one turn of the loop over re.captures_iter(haystack)
ReplaceSpan ==
  /\ pc = "scan"
  /\ next_capture(input, last_match) # None
  /\ LET push_str(caps, r) ==
           IF r.k = "Ok"
           THEN /\ new' = new \o Slice(input, last_match, caps.start) \o r.v
                /\ last_match' = caps.end
                /\ UNCHANGED <<pc, result>>
           ELSE /\ new' = new \o Slice(input, last_match, caps.start)
                /\ Return(r)
                /\ UNCHANGED last_match
         turn(caps) == push_str(caps, math_replacement(caps))
     IN turn(next_capture(input, last_match)[1])
  /\ UNCHANGED <<tex, shorthands, results, tokens, tex_tree, typst_tree, writer, macro_definitions,
                 custom_macros, registry, pos, expanded_tokens, input>>

\* replace_all: the loop is over, the rest of the haystack is pushed and new
\* is returned
ReplaceTail ==
  /\ pc = "scan"
  /\ next_capture(input, last_match) = None
  /\ new' = new \o Slice(input, last_match, Len(input))
  /\ result' = Ok(new')
  /\ pc' = "done"
  /\ UNCHANGED <<tex, shorthands, results, tokens, tex_tree, typst_tree, writer, macro_definitions,
                 custom_macros, registry, pos, expanded_tokens, input, last_match>>

NextDoc == ReplaceSpan \/ ReplaceTail

SpecDoc == InitDoc /\ [][NextDoc]_vars

(***************************************************************************)
(* Claims about text_and_tex2typst                                         *)
(***************************************************************************)
\* s has a math span of the given kind from i to j: the opening delimiter at i,
\* at least one character of content (none of them a newline in an inline
\* span), and at j the first closing delimiter that allows it
IsSpan(s, i, j, kind) ==
  LET open == IF kind = 1 THEN <<BS, "(">> ELSE <<BS, "[">>
      close == IF kind = 1 THEN <<BS, ")">> ELSE <<BS, "]">>
      closes(k) ==
        /\ k >= i + 3
        /\ k + 2 <= Len(s)
        /\ Slice(s, k, k + 2) = close
        /\ kind = 1 => \A n \in (i + 2)..(k - 1) : At(s, n) # "\n"
  IN /\ i + 2 <= Len(s)
     /\ Slice(s, i, i + 2) = open
     /\ closes(j)
     /\ \A k \in 0..(j - 1) : ~closes(k)

\* the spans of s that start at from or later, each one searched for after the
\* end of the one before it
RECURSIVE SpansFrom(_, _)
SpansFrom(s, from) ==
  LET found == {x \in (from..Len(s)) \X (0..Len(s)) \X {1, 2} : IsSpan(s, x[1], x[2], x[3])} IN
  IF found = {} THEN <<>>
  ELSE LET x == CHOOSE y \in found : \A z \in found : y[1] <= z[1] IN
       <<[group |-> x[3], start |-> x[1], end |-> x[2] + 2,
          content |-> Slice(s, x[1] + 2, x[2])]>> \o SpansFrom(s, x[2] + 2)

\* the math spans of the document, in document order
Spans(s) == SpansFrom(s, 0)

\* the conversion of the content of a span
SpanResult(caps) == tex2typst(trim(caps.content))

\* the spans of s whose conversion does not return Ok
FailedSpans(s) == {i \in 1..Len(Spans(s)) : SpanResult(Spans(s)[i]).k # "Ok"}

FirstFailedSpan(s) == Spans(s)[CHOOSE i \in FailedSpans(s) : \A j \in FailedSpans(s) : i <= j]

\* C3: text_and_tex2typst is all-or-nothing: when the conversion of a span
\* returns Err the whole call returns that Err and no output text, even after
\* earlier spans converted, and the call never returns Ok with a failed span
\* left unconverted or omitted.
C3_AllOrNothing ==
  Done =>
    /\ result.k = "Ok" => FailedSpans(input) = {}
    /\ (\E i \in FailedSpans(input) : SpanResult(Spans(input)[i]).k = "Err") =>
         result.k # "Ok" /\ result.v = <<>>
    /\ (FailedSpans(input) # {} /\ SpanResult(FirstFailedSpan(input)).k = "Err") =>
         result = Err(SpanResult(FirstFailedSpan(input)).msg)

\* the call returned Err after an earlier span had been converted
C3_ErrAfterConvertedSpan ==
  /\ Done
  /\ result.k = "Err"
  /\ "$" \in Range(new)
  /\ SpanResult(Spans(input)[1]).k = "Ok"

\* the text a converted span is replaced by
Dollars(caps) ==
  IF caps.group = 1 THEN <<"$">> \o SpanResult(caps).v \o <<"$">>
  ELSE <<"$", "\n">> \o SpanResult(caps).v \o <<"\n", "$">>

\* s from position from on, with each of the spans caps replaced
RECURSIVE Substituted(_, _, _)
Substituted(s, caps, from) ==
  IF caps = <<>> THEN SliceFrom(s, from)
  ELSE Slice(s, from, Head(caps).start) \o Dollars(Head(caps))
         \o Substituted(s, Tail(caps), Head(caps).end)

\* C4: when every span converts, the result of text_and_tex2typst is the input
\* with each inline span replaced by $ + tex2typst(trim(X)) + $ and each
\* display span by $ + newline + tex2typst(trim(X)) + newline + $, in document
\* order, the characters outside the spans unchanged.
C4_SpansReplaced ==
  (Done /\ FailedSpans(input) = {}) => result = Ok(Substituted(input, Spans(input), 0))

\* a document with text, an inline span and a display span has been converted
C4_BothKindsConverted ==
  /\ Done
  /\ result.k = "Ok"
  /\ \E i, j \in 1..Len(Spans(input)) : Spans(input)[i].group = 1 /\ Spans(input)[j].group = 2
  /\ "x" \in Range(result.v)

(***************************************************************************)
(* tex2typst_with_macros                                                   *)
(***************************************************************************)
\* the text of one definition: \newcommand{name}args{body}
newcommand(name, args, body) ==
  s_newcommand \o <<"{">> \o name \o <<"}">> \o args \o <<"{">> \o body \o <<"}">>

\* the definition of tests.rs, test_convoluted_square_brackets
pp_definition == newcommand(<<BS, "p", "p">>, <<"[", "2", "]", "[", "]">>, <<BS, "f", "r", "a", "c", "{", BS, "p", "a", "r", "t", "i", "a", "l", " ", "#", "1", "}", "{", BS, "p", "a", "r", "t", "i", "a", "l", " ", "#", "2", "}">>)

\* the macro whose body is its argument, and calls of it
identity_definition == newcommand(<<BS, "i">>, <<"[", "1", "]">>, <<"#", "1">>)

IdentityArguments ==
  {<<"a">>, <<"a", "+", "b">>, <<"a", " ", "b">>, <<"{", "a", "}", "b">>, <<"1", "2">>, <<"x", "^", "2", "_", "a">>, <<BS, "f", "r", "a", "c", "{", "a", "}", "{", "b", "}">>, <<BS, "a", "l", "p", "h", "a", "+", BS, BS>>, <<BS, "{", "a", BS, "}">>,
   <<BS, "t", "e", "x", "t", "{", "a", " ", "b", "}">>, <<BS, "t", "e", "x", "t", "{", "a", BS, "$", "}">>, <<BS, "t", "e", "x", "t", "{", BS, "{", "}">>, <<"%", "c", "\n">>, <<"~">>, <<"a", "~", "b">>, <<>>}

identity_call(argument) == <<BS, "i", "{">> \o argument \o <<"}">>

IdentityCalls == {identity_call(a) : a \in IdentityArguments}

\* macro tables: a macro that calls another one, one of each kind, a name
\* defined twice, a macro that calls itself, no macro, and a malformed table
MacroTables ==
  {newcommand(<<BS, "a">>, <<>>, <<BS, "b">>) \o newcommand(<<BS, "b">>, <<>>, <<"x">>),
   newcommand(<<BS, "a">>, <<>>, <<"x", "+", "1">>),
   newcommand(<<BS, "u">>, <<"[", "1", "]">>, <<"(", "#", "1", ")">>) \o newcommand(<<BS, "a">>, <<>>, <<"x">>),
   newcommand(<<BS, "v">>, <<"[", "2", "]">>, <<"#", "1", "^", "#", "2">>),
   newcommand(<<BS, "m">>, <<"[", "1", "]", "[", "D", "]">>, <<"x", " ", "#", "1">>),
   newcommand(<<BS, "m">>, <<"[", "2", "]", "[", "D", "]">>, <<"#", "1", "+", "#", "2">>),
   pp_definition,
   newcommand(<<BS, "a">>, <<>>, <<"x">>) \o newcommand(<<BS, "a">>, <<"[", "1", "]">>, <<"#", "1">>),
   newcommand(<<BS, "a">>, <<>>, <<BS, "a">>),
   identity_definition,
   <<>>,
   s_newcommand \o <<"{", BS, "a">>}

MacroCalls ==
  {<<BS, "a">>, <<BS, "b">>, <<BS, "u">>, <<BS, "u", "{", "a", "}">>, <<BS, "u", "{", BS, "a", "}">>, <<BS, "u", "{", "}">>, <<BS, "v", "{", "a", "}", "{", "b", "}">>, <<BS, "v", "{", "a", "}">>,
   <<BS, "m">>, <<BS, "m", "[", "A", "]">>, <<BS, "m", "{", "B", "}">>, <<BS, "m", "[", "A", "]", "{", "B", "}">>, <<BS, "m", "[", "A">>,
   <<BS, "p", "p", "{", "y", "}">>, <<BS, "p", "p", "[", "f", "]", "{", "y", "}">>, <<BS, "p", "p", "[", "f", "[", "x", "]", "]", "{", "y", "}">>, <<BS, "t", "e", "x", "t">>,
   <<BS, "u", "{", "{", "a", "}", "b", "}">>, <<BS, "u", "{", "a", BS, "}", "b", "}">>, <<BS, "u", "{", "a">>,
   <<BS, "v", "{", "}", "{", "b", "}">>, <<BS, "v", "{", "{", "a", "}", "}", "{", "b", "}">>}
    \cup IdentityCalls

TextBefore == {<<>>, <<"a", "+">>}

TextAfter == {<<>>, <<"+", "a">>, <<" ", "a">>}

\* inputs with and without whitespace around a script mark
ScriptSpaceInputs ==
  {<<"a", " ", "_", "b">>, <<"a", "^", " ", "b">>, <<"a", "_", " ", "b">>, <<"a", " ", "^", "b">>, <<"a", "_", "b">>, <<"a", "^", "b">>, <<"a", " ", "_", "b", "^", " ", "c">>, <<"a", " ", "+", " ", "b">>, <<"x", "^", "2">>, <<BS, "f", "r", "a", "c", "{", "a", "}", "{", "b", "}">>,
   <<BS, "s", "q", "r", "t", "{", "a", "}">>, <<BS, "t", "e", "x", "t", "{", "a", " ", "b", "}">>, <<"a", "_">>, <<"a", " ", "b">>,  <<"{", "a", "}", "_", "b">>}

MacroTexInputs ==
  {b \o c \o a : b \in TextBefore, c \in MacroCalls, a \in TextAfter} \cup ScriptSpaceInputs

InitMacros ==
  /\ pc = "tokenize_tex"
  /\ tex \in MacroTexInputs
  /\ macro_definitions \in MacroTables
  /\ custom_macros = <<>>
  /\ registry = new_registry
  /\ pos = 0
  /\ expanded_tokens = <<>>
  /\ PipelineBlank
  /\ ShorthandsBlank
  /\ DocumentBlank

\* let tokens = tex_tokenizer::tokenize(tex)?
TokenizeTex ==
  /\ pc = "tokenize_tex"
  /\ LET t == tokenize(tex) IN
     IF t.k = "Ok"
     THEN /\ tokens' = t.v
          /\ pc' = "parse_custom_macros"
          /\ UNCHANGED result
     ELSE /\ Return(t)
          /\ UNCHANGED tokens
  /\ UNCHANGED <<tex, shorthands, results, tex_tree, typst_tree, writer, macro_definitions, custom_macros,
                 registry, pos, expanded_tokens, input, last_match, new>>

\* let custom_macros = parse_custom_macros(macro_definitions)?
ParseCustomMacros ==
  /\ pc = "parse_custom_macros"
  /\ LET m == parse_custom_macros(macro_definitions) IN
     IF m.k = "Ok"
     THEN /\ custom_macros' = m.v
          /\ pc' = "register"
          /\ UNCHANGED result
     ELSE /\ Return(m)
          /\ UNCHANGED custom_macros
  /\ UNCHANGED <<tex, shorthands, results, tokens, tex_tree, typst_tree, writer, macro_definitions,
                 registry, pos, expanded_tokens, input, last_match, new>>

\* registry.register_custom_macros(custom_macros)
RegisterCustomMacros ==
  /\ pc = "register"
  /\ registry' = register_custom_macros(new_registry, custom_macros)
  /\ pc' = "expand"
  /\ UNCHANGED <<tex, shorthands, results, tokens, tex_tree, typst_tree, writer, result, macro_definitions,
                 custom_macros, pos, expanded_tokens, input, last_match, new>>

\* let expanded_tokens = registry.expand_macros(&tokens)?
ExpandMacros ==
  /\ pc = "expand"
  /\ LET e == expand_macros(registry, tokens) IN
     IF e.k = "Ok"
     THEN /\ expanded_tokens' = e.v
          /\ pc' = "parse_expanded"
          /\ UNCHANGED result
     ELSE /\ Return(e)
          /\ UNCHANGED expanded_tokens
  /\ UNCHANGED <<tex, shorthands, results, tokens, tex_tree, typst_tree, writer, macro_definitions,
                 custom_macros, registry, pos, input, last_match, new>>

\* let tex_tree = parser.parse(expanded_tokens)?
ParseExpanded ==
  /\ pc = "parse_expanded"
  /\ LET t == parse(expanded_tokens) IN
     IF t.k = "Ok"
     THEN /\ tex_tree' = Some(t.v)
          /\ pc' = "convert"
          /\ UNCHANGED result
     ELSE /\ Return(t)
          /\ UNCHANGED tex_tree
  /\ UNCHANGED <<tex, shorthands, results, tokens, typst_tree, writer, macro_definitions, custom_macros,
                 registry, pos, expanded_tokens, input, last_match, new>>

NextMacros ==
  \/ TokenizeTex
  \/ ParseCustomMacros
  \/ RegisterCustomMacros
  \/ ExpandMacros
  \/ ParseExpanded
  \/ Convert
  \/ Serialize
  \/ Finalize

SpecMacros == InitMacros /\ [][NextMacros]_vars

(***************************************************************************)
(* Claims about the expansion of macros                                    *)
(***************************************************************************)
\* the names of the commands in the text of a definition
CalledNames(text) ==
  IF tokenize(text).k # "Ok" THEN {}
  ELSE {t.v : t \in {u \in Range(tokenize(text).v) : u.t = "Command"}}

\* macro i of ms calls macro j of ms in its body or in its default value
Refers(ms, i, j) ==
  \/ ms[j].name \in CalledNames(ms[i].definition)
  \/ ms[i].default_value # None /\ ms[j].name \in CalledNames(ms[i].default_value[1])

\* macro i of ms reaches macro j in at most n calls
RECURSIVE ReachesIn(_, _, _, _)
ReachesIn(ms, i, j, n) ==
  /\ n > 0
  /\ \/ Refers(ms, i, j)
     \/ \E k \in 1..Len(ms) : Refers(ms, i, k) /\ ReachesIn(ms, k, j, n - 1)

\* no macro of ms references itself, directly or indirectly
NoSelfReference(ms) == \A i \in 1..Len(ms) : ~ReachesIn(ms, i, i, Len(ms))

\* the tokens of ts that are commands naming a registered macro
MacroCallsIn(ts) ==
  {i \in 1..Len(ts) : ts[i].t = "Command"
                      /\ \E j \in 1..Len(registry.custom_macros) :
                           registry.custom_macros[j].name = ts[i].v}

\* expand_macros has returned Ok and its output is in expanded_tokens
Expanded == pc = "parse_expanded"

\* C5: for a macro table in which no macro references itself, after
\* expand_macros returns Ok the output stream contains no Command token that
\* names a registered macro.
C5_NoMacroLeft ==
  (Expanded /\ NoSelfReference(registry.custom_macros)) => MacroCallsIn(expanded_tokens) = {}

\* expand_macros returned Ok for the call \a of a macro whose body is \b, and
\* the call of the registered macro \b is in the output
C5_BodyCallLeft ==
  /\ Expanded
  /\ NoSelfReference(registry.custom_macros)
  /\ tex = <<BS, "a">>
  /\ expanded_tokens = <<TexToken("Command", <<BS, "b">>)>>
  /\ MacroCallsIn(expanded_tokens) = {1}

\* C6: expand_macros is idempotent: for a macro table in which no macro
\* references itself and a token stream on which expansion succeeds, expanding
\* the expanded stream again gives the expanded stream.
C6_Idempotent ==
  (Expanded /\ NoSelfReference(registry.custom_macros)) =>
    expand_macros(registry, expanded_tokens) = Ok(expanded_tokens)

\* the output of an expansion that succeeded is changed by a second expansion
C6_SecondExpansionDiffers ==
  /\ Expanded
  /\ NoSelfReference(registry.custom_macros)
  /\ expand_macros(registry, expanded_tokens).k = "Ok"
  /\ expand_macros(registry, expanded_tokens).v # expanded_tokens

\* the two macros with a default value of MacroTables
optional_unary_definition == newcommand(<<BS, "m">>, <<"[", "1", "]", "[", "D", "]">>, <<"x", " ", "#", "1">>)

optional_binary_definition == newcommand(<<BS, "m">>, <<"[", "2", "]", "[", "D", "]">>, <<"#", "1", "+", "#", "2">>)

\* the invocations C7 names, each with the text its body becomes
DefaultValueCases ==
  {[table |-> optional_binary_definition, call |-> <<BS, "m", "{", "B", "}">>, body |-> <<"D", "+", "B">>],
   [table |-> optional_binary_definition, call |-> <<BS, "m", "[", "A", "]", "{", "B", "}">>, body |-> <<"A", "+", "B">>],
   [table |-> optional_unary_definition, call |-> <<BS, "m">>, body |-> <<"x", " ", "D">>],
   [table |-> optional_unary_definition, call |-> <<BS, "m", "[", "A", "]">>, body |-> <<"x", " ", "A">>]}

\* the call has got past expand_macros, or has ended
AfterExpansion == pc \in {"parse_expanded", "convert", "serialize", "finalize", "done"}

\* C7: default-value substitution: for a macro defined with [2][D], \m{B}
\* expands to the body with #1 := D and #2 := B and \m[A]{B} to the body with
\* #1 := A and #2 := B; for a macro defined with [1][D], \m gives #1 := D and
\* \m[A] gives #1 := A; the tokens before and after the invocation appear
\* unchanged in the output.
C7_DefaultValue ==
  \A c \in DefaultValueCases, b \in TextBefore, a \in TextAfter :
    (AfterExpansion /\ macro_definitions = c.table /\ tex = b \o c.call \o a) =>
      expanded_tokens = tokenize(b).v \o tokenize(c.body).v \o tokenize(a).v

\* the call \m of the macro defined with [1][D] has ended by aborting
C7_LastTokenAborts ==
  /\ Done
  /\ macro_definitions = optional_unary_definition
  /\ tex = <<BS, "m">>
  /\ result.k = "Panic"

\* C8: the optional value of an invocation ends at the ] that matches its [
\* by depth counting, so that with the definition
\* \newcommand{\pp}[2][]{\frac{\partial #1}{\partial #2}} the input
\* \pp[f[x]]{y} converts to (diff f [x])/(diff y).
C8_NestedSquareBrackets ==
  (Done /\ macro_definitions = pp_definition /\ tex = <<BS, "p", "p", "[", "f", "[", "x", "]", "]", "{", "y", "}">>) =>
    result = Ok(<<"(", "d", "i", "f", "f", " ", "f", " ", "[", "x", "]", ")", "/", "(", "d", "i", "f", "f", " ", "y", ")">>)

\* the conversion of \pp[f[x]]{y} has returned Err
C8_NestedValueIsErr ==
  /\ Done
  /\ macro_definitions = pp_definition
  /\ tex = <<BS, "p", "p", "[", "f", "[", "x", "]", "]", "{", "y", "}">>
  /\ result.k = "Err"

(***************************************************************************)
(* parse_custom_macros, one turn of its loop at a time                     *)
(***************************************************************************)
\* the most definitions a generated definitions text holds
MaxDefinitions == 2

DefinitionNames == {<<BS, "a">>, <<BS, "p", "p">>}

DefinitionArgs == {<<>>, <<"[", "1", "]">>, <<"[", "2", "]">>, <<"[", "1", "]", "[", "D", "]">>, <<"[", "2", "]", "[", "D", "]">>, <<"[", "2", "]", "[", "]">>}

\* balanced bodies: plain, empty, with placeholders, with groups, with a call
DefinitionBodies == {<<"x">>, <<>>, <<"#", "1", "+", "#", "2">>, <<"{", "a", "}", "b">>, <<"a", "{", "b", "}">>, <<BS, "b">>}

\* what a well-formed definition is made of
Descriptors ==
  [name : DefinitionNames, args : DefinitionArgs, body : DefinitionBodies]

\* the descriptors used in texts of more than one definition
ShortDescriptors ==
  [name : DefinitionNames, args : {<<>>, <<"[", "2", "]", "[", "D", "]">>}, body : {<<"x">>, <<>>, <<"{", "a", "}", "b">>}]

DescriptorSeqs ==
  SeqsUpTo(Descriptors, 1) \cup (SeqsUpTo(ShortDescriptors, MaxDefinitions) \ {<<>>})

\* the definitions text of a sequence of descriptors, one definition per line
RECURSIVE Render(_)
Render(ds) ==
  IF ds = <<>> THEN <<>>
  ELSE newcommand(Head(ds).name, Head(ds).args, Head(ds).body)
         \o (IF Len(ds) > 1 THEN <<"\n">> ELSE <<>>) \o Render(Tail(ds))

\* the malformed definitions: no { after \newcommand, a name without its
\* backslash, unmatched braces and square brackets, a count that is not a
\* number or is more than 2, a default value with the count 0, and texts that
\* end before the body
MalformedDefinitions ==
  {s_newcommand \o <<" ", "x">>,
   s_newcommand \o <<"[", "1", "]", "{", "x", "}">>,
   s_newcommand \o <<"{", "a", "}", "{", "x", "}">>,
   s_newcommand \o <<"{", BS, "a">>,
   s_newcommand \o <<"{", BS, "a", "}", "{", "x">>,
   s_newcommand \o <<"{", BS, "a", "}", "[", "1", "{", "x", "}">>,
   s_newcommand \o <<"{", BS, "a", "}", "[", "1", "]", "[", "D", "{", "x", "}">>,
   s_newcommand \o <<"{", BS, "a", "}", "[", "x", "]", "{", "#", "1", "}">>,
   s_newcommand \o <<"{", BS, "a", "}", "[", "]", "{", "#", "1", "}">>,
   s_newcommand \o <<"{", BS, "a", "}", "[", "3", "]", "{", "#", "1", "}">>,
   s_newcommand \o <<"{", BS, "a", "}", "[", "1", "2", "]", "{", "#", "1", "}">>,
   s_newcommand \o <<"{", BS, "a", "}", "[", "0", "]", "[", "D", "]", "{", "x", "}">>,
   s_newcommand \o <<"{", BS, "a", "}", " ", "x">>,
   s_newcommand \o <<"{">>,
   s_newcommand \o <<"{", BS, "a", "}">>,
   s_newcommand \o <<"{", BS, "a", "}", "[", "1", "]">>,
   s_newcommand \o <<"{", BS, "a", "}", "[", "1", "]", "[", "D", "]">>}

DefinitionTexts ==
  {Render(ds) : ds \in DescriptorSeqs}
    \cup MalformedDefinitions
    \cup {<<"%", " ", "m">> \o <<"\n">> \o newcommand(<<BS, "a">>, <<"[", "+", "1", "]">>, <<"#", "1">>), s_newcommand, <<"x">>}

InitDefinitions ==
  /\ pc = "scan_definitions"
  /\ macro_definitions \in DefinitionTexts
  /\ custom_macros = <<>>
  /\ pos = 0
  /\ registry = new_registry
  /\ expanded_tokens = <<>>
  /\ tex = <<>>
  /\ PipelineBlank
  /\ ShorthandsBlank
  /\ DocumentBlank

\* while pos < latex.len().saturating_sub(pattern_len)
InLoop ==
  /\ pc = "scan_definitions"
  /\ pos < saturating_sub(Len(macro_definitions), Len(s_newcommand))

\* a turn of the loop at a position where the pattern does not start
SkipChar ==
  /\ InLoop
  /\ ~StartsWithAt(macro_definitions, pos, s_newcommand)
  /\ pos' = pos + 1
  /\ UNCHANGED <<pc, tex, shorthands, results, tokens, tex_tree, typst_tree, writer, result, macro_definitions,
                 custom_macros, registry, expanded_tokens, input, last_match, new>>

\* a turn of the loop at a position where the pattern starts: the definition
\* is parsed and pushed, or the call ends
ParseDefinition ==
  /\ InLoop
  /\ StartsWithAt(macro_definitions, pos, s_newcommand)
  /\ LET m == macro_definition(macro_definitions, pos + Len(s_newcommand)) IN
     IF m.k = "Ok"
     THEN /\ custom_macros' = Append(custom_macros, m.v)
          /\ pos' = m.pos + 1
          /\ UNCHANGED <<pc, result>>
     ELSE /\ Return(m)
          /\ UNCHANGED <<custom_macros, pos>>
  /\ UNCHANGED <<tex, shorthands, results, tokens, tex_tree, typst_tree, writer, macro_definitions,
                 registry, expanded_tokens, input, last_match, new>>

\* the loop is over: Ok(custom_macros)
ReturnCustomMacros ==
  /\ pc = "scan_definitions"
  /\ ~InLoop
  /\ result' = Ok(custom_macros)
  /\ pc' = "done"
  /\ UNCHANGED <<tex, shorthands, results, tokens, tex_tree, typst_tree, writer, macro_definitions,
                 custom_macros, registry, pos, expanded_tokens, input, last_match, new>>

NextDefinitions == SkipChar \/ ParseDefinition \/ ReturnCustomMacros

SpecDefinitions == InitDefinitions /\ [][NextDefinitions]_vars

(***************************************************************************)
(* Claims about parse_custom_macros                                        *)
(***************************************************************************)
\* the arity kind the claim gives to an argument specification
KindOf(args) ==
  CASE args = <<>> -> "Symbol"
    [] args = <<"[", "1", "]">> -> "Unary"
    [] args = <<"[", "2", "]">> -> "Binary"
    [] args = <<"[", "1", "]", "[", "D", "]">> -> "OptionalUnary"
    [] args \in {<<"[", "2", "]", "[", "D", "]">>, <<"[", "2", "]", "[", "]">>} -> "OptionalBinary"

\* the macros are those of the descriptors: name, kind and body, in order
MacrosAre(macros, ds) ==
  /\ Len(macros) = Len(ds)
  /\ \A i \in 1..Len(ds) :
       /\ macros[i].name = ds[i].name
       /\ macros[i].command_type = KindOf(ds[i].args)
       /\ macros[i].definition = ds[i].body

\* C9: parse_custom_macros returns one macro per \newcommand, in input order,
\* with the name inside the first braces, the arity kind fixed by the argument
\* count and the presence of a default, and the body exactly the text between
\* the body's { and its matching }, for every balanced body, the empty body
\* and a body that starts with { included.
C9_MacrosAsWritten ==
  \A ds \in DescriptorSeqs :
    (Done /\ macro_definitions = Render(ds)) =>
      result.k = "Ok" /\ MacrosAre(result.v, ds)

\* the definition with the empty body has been refused
C9_EmptyBodyIsErr ==
  /\ Done
  /\ macro_definitions = newcommand(<<BS, "a">>, <<>>, <<>>)
  /\ result.k = "Err"

\* C10: parse_custom_macros returns Err, and neither aborts nor returns a
\* macro list, for every malformed definition, the texts \newcommand{ and
\* \newcommand{\a} that end before the body included.
C10_MalformedIsErr ==
  (Done /\ macro_definitions \in MalformedDefinitions) => result.k = "Err"

\* the call on the text \newcommand{ has ended by aborting
C10_TruncatedAborts ==
  /\ Done
  /\ macro_definitions = s_newcommand \o <<"{">>
  /\ result.k = "Panic"

(***************************************************************************)
(* CommandRegistry: registrations                                          *)
(***************************************************************************)
\* the most macros a registry is given
MaxRegistrations == 3

CommandTypes == {"Symbol", "Unary", "Binary", "OptionalUnary", "OptionalBinary"}

\* names to register: two names of custom macros, and the names of a built-in
\* binary and of a built-in unary command
RegistryNames == {<<BS, "a">>, <<BS, "m", "y", "c", "o", "m", "m", "a", "n", "d">>, <<"f", "r", "a", "c">>, <<"t", "e", "x", "t">>}

\* the macros to register; the body does not matter to the registry
RegistryMacros == {CustomMacro(n, t, <<"x">>, None) : n \in RegistryNames, t \in CommandTypes}

InitRegistry ==
  /\ pc = "registry"
  /\ registry = new_registry
  /\ macro_definitions = <<>>
  /\ custom_macros = <<>>
  /\ pos = 0
  /\ expanded_tokens = <<>>
  /\ tex = <<>>
  /\ PipelineBlank
  /\ ShorthandsBlank
  /\ DocumentBlank

\* registry.register_custom_macro(name, command_type, implementation)
RegisterCustomMacro ==
  /\ pc = "registry"
  /\ Len(registry.custom_macros) < MaxRegistrations
  /\ \E m \in RegistryMacros : registry' = register_custom_macro(registry, m)
  /\ UNCHANGED <<pc, tex, shorthands, results, tokens, tex_tree, typst_tree, writer, result, macro_definitions,
                 custom_macros, pos, expanded_tokens, input, last_match, new>>

\* registry.register_custom_macros(custom_macros) with a list of two macros
RegisterMacroList ==
  /\ pc = "registry"
  /\ Len(registry.custom_macros) + 2 <= MaxRegistrations
  /\ \E m1, m2 \in RegistryMacros : registry' = register_custom_macros(registry, <<m1, m2>>)
  /\ UNCHANGED <<pc, tex, shorthands, results, tokens, tex_tree, typst_tree, writer, result, macro_definitions,
                 custom_macros, pos, expanded_tokens, input, last_match, new>>

NextRegistry == RegisterCustomMacro \/ RegisterMacroList

SpecRegistry == InitRegistry /\ [][NextRegistry]_vars

(***************************************************************************)
(* Claims about the registry                                               *)
(***************************************************************************)
\* the kind given in the most recent registration of name, None if the name
\* was never registered
LastRegistered(name) ==
  LET S == {i \in 1..Len(registry.custom_macros) : registry.custom_macros[i].name = name} IN
  IF S = {} THEN None
  ELSE Some(registry.custom_macros[CHOOSE i \in S : \A j \in S : i >= j].command_type)

BuiltinCommands ==
  UNARY_COMMANDS \cup BINARY_COMMANDS \cup OPTION_UNARY_COMMANDS \cup OPTION_BINARY_COMMANDS

\* C11: after any sequence of registrations, get_command_type(name) returns
\* the kind given in the most recent registration of that name; a name never
\* registered that is not a built-in command is reported as Symbol; and
\* get_command_type never returns None.
C11_LastWriteWins ==
  pc = "registry" =>
    \A name \in RegistryNames \cup {<<BS, "b">>} :
      /\ get_command_type(registry, name) # None
      /\ LastRegistered(name) # None =>
           get_command_type(registry, name) = LastRegistered(name)
      /\ (LastRegistered(name) = None /\ name \notin BuiltinCommands) =>
           get_command_type(registry, name) = Some("Symbol")

\* the name frac has been registered as a Symbol and is reported as Binary
C11_BuiltinKindReported ==
  /\ pc = "registry"
  /\ LastRegistered(<<"f", "r", "a", "c">>) = Some("Symbol")
  /\ get_command_type(registry, <<"f", "r", "a", "c">>) = Some("Binary")

(***************************************************************************)
(* Claims about the floor forms                                            *)
(***************************************************************************)
\* C12: for every expression X, the conversions of \left\lfloor X \right\rfloor
\* and of \floor{X} return the same text, floor( followed by the conversion
\* of X and ); the two forms of \frac{a}{b} side by side give
\* floor(a/b) floor(a/b).
C12_FloorFormsAgree ==
  Done =>
    /\ \A X \in FloorBodies :
         tex \in {left_floor(X), floor_command(X)} =>
           result = Ok(<<"f", "l", "o", "o", "r", "(">> \o tex2typst(X).v \o <<")">>)
    /\ tex = test_floor => result = Ok(<<"f", "l", "o", "o", "r", "(", "a", "/", "b", ")", " ", "f", "l", "o", "o", "r", "(", "a", "/", "b", ")">>)

\* \floor{a} is converted to the symbol floor followed by a
C12_FloorCommandIsSymbol ==
  /\ Done
  /\ tex = floor_command(<<"a">>)
  /\ result = Ok(<<"f", "l", "o", "o", "r", " ", "a">>)

(***************************************************************************)
(* tex2typst_with_shorthands                                               *)
(***************************************************************************)
SymbolShorthand(original, shorthand) == [original |-> original, shorthand |-> shorthand]

\* each original replaced by its shorthand in text, in list order
RECURSIVE replace_shorthands(_, _)
replace_shorthands(text, shorthand_list) ==
  IF shorthand_list = <<>> THEN text
  ELSE replace_shorthands(
         Replace(text, Head(shorthand_list).original, Head(shorthand_list).shorthand),
         Tail(shorthand_list))

\* TypstWriter::replace_with_shorthand: the literal replacement, on what the
\* writer has rendered of its queue
replace_with_shorthand(w, shorthand_list) ==
  [flush_queue(w) EXCEPT !.buffer = replace_shorthands(flush_queue(w).buffer, shorthand_list)]

\* the list of tests.rs, test_lib_shorthand
test_shorthands ==
  <<SymbolShorthand(<<"p", "l", "u", "s", ".", "m", "i", "n", "u", "s">>, <<"+", "-">>),
    SymbolShorthand(<<"i", "n", "t", "e", "g", "r", "a", "l">>, <<"i", "n", "t">>),
    SymbolShorthand(<<"a", "r", "r", "o", "w", ".", "r", ".", "l", "o", "n", "g">>, <<"-", "-", ">">>),
    SymbolShorthand(<<"a", "r", "r", "o", "w", ".", "r", ".", "d", "o", "u", "b", "l", "e", ".", "l", "o", "n", "g">>, <<"=", "=", ">">>)>>

ShorthandLists ==
  {<<>>,
   test_shorthands,
   <<SymbolShorthand(<<"p", "l", "u", "s", ".", "m", "i", "n", "u", "s">>, <<"+", "-">>), SymbolShorthand(<<"i", "n", "t", "e", "g", "r", "a", "l">>, <<"i", "n", "t">>)>>,
   <<SymbolShorthand(<<"p", "l", "u", "s", ".", "m", "i", "n", "u", "s">>, <<"i", "n", "t", "e", "g", "r", "a", "l">>), SymbolShorthand(<<"i", "n", "t", "e", "g", "r", "a", "l">>, <<"i", "n", "t">>)>>,
   <<SymbolShorthand(<<"i", "n", "t", "e", "g", "r", "a", "l">>, <<"i", "n", "t">>), SymbolShorthand(<<"p", "l", "u", "s", ".", "m", "i", "n", "u", "s">>, <<"i", "n", "t", "e", "g", "r", "a", "l">>)>>,
   <<SymbolShorthand(<<"f", "l", "o", "o", "r", ".", "l">>, <<"[">>)>>}

ShorthandTexInputs ==
  {<<BS, "l", "o", "n", "g", "r", "i", "g", "h", "t", "a", "r", "r", "o", "w", " ", BS, "L", "o", "n", "g", "r", "i", "g", "h", "t", "a", "r", "r", "o", "w", " ", BS, "p", "m", " ", BS, "i", "n", "t", "_", "a", "^", "b">>,
   <<BS, "p", "m", " ", BS, "i", "n", "t", "_", "a", "^", "b">>,
   <<"a", " ", BS, "p", "m", " ", BS, "f", "r", "a", "c", "{", "a", "}", "{", "b", "}">>,
   <<BS, "l", "f", "l", "o", "o", "r", " ", "a", " ", BS, "r", "f", "l", "o", "o", "r", " ", BS, "p", "m", " ", "b">>,
   <<BS, "i", "n", "t", "_", "a", "^", "b", " ", BS, "l", "f", "l", "o", "o", "r", " ", "x", " ", BS, "r", "f", "l", "o", "o", "r">>,
   <<"a", " ", "+", " ", "b">>,
   <<BS, "p", "m", "}">>,
   <<BS, "f", "r", "a", "c", "{", BS, "p", "m">>}

InitShorthands ==
  /\ pc = "tokenize"
  /\ tex \in ShorthandTexInputs
  /\ shorthands \in ShorthandLists
  /\ PipelineBlank
  /\ MacrosBlank
  /\ DocumentBlank

\* writer.serialize(&typst_tree), before the shorthands are put in
SerializeBeforeShorthands ==
  /\ pc = "serialize"
  /\ LET w == serialize(writer, typst_tree[1]) IN
     IF w.k = "Ok"
     THEN /\ writer' = w.v
          /\ pc' = "replace_with_shorthand"
          /\ UNCHANGED result
     ELSE /\ Return(w)
          /\ UNCHANGED writer
  /\ UNCHANGED <<tex, shorthands, results, tokens, tex_tree, typst_tree, macro_definitions, custom_macros,
                 registry, pos, expanded_tokens, input, last_match, new>>

\* writer.replace_with_shorthand(shorthands)
ReplaceWithShorthand ==
  /\ pc = "replace_with_shorthand"
  /\ writer' = replace_with_shorthand(writer, shorthands)
  /\ pc' = "finalize"
  /\ UNCHANGED <<tex, shorthands, results, tokens, tex_tree, typst_tree, result, macro_definitions,
                 custom_macros, registry, pos, expanded_tokens, input, last_match, new>>

NextShorthands ==
  Tokenize \/ Parse \/ Convert \/ SerializeBeforeShorthands \/ ReplaceWithShorthand \/ Finalize

SpecShorthands == InitShorthands /\ [][NextShorthands]_vars

(***************************************************************************)
(* Claims about the shorthands                                             *)
(***************************************************************************)
\* text with each original of list replaced by its shorthand, one entry of
\* the list after the other
RECURSIVE Shortened(_, _)
Shortened(text, list) ==
  IF list = <<>> THEN text
  ELSE Shortened(Replace(text, list[1].original, list[1].shorthand), Tail(list))

\* C13: tex2typst_with_shorthands returns the text of the normal pipeline
\* with each original replaced by its shorthand, in list order, the
\* replacement being made on the rendered text; with the list of
\* test_lib_shorthand the input \longrightarrow \Longrightarrow \pm \int_a^b
\* gives --> ==> +- int_a^b, and with the empty list the result is that of
\* tex2typst.
C13_ShorthandsAfterRendering ==
  Done =>
    /\ tex2typst(tex).k = "Ok" =>
         result = Ok(Shortened(tex2typst(tex).v, shorthands))
    /\ tex2typst(tex).k # "Ok" => result = tex2typst(tex)
    /\ (tex = <<BS, "l", "o", "n", "g", "r", "i", "g", "h", "t", "a", "r", "r", "o", "w", " ", BS, "L", "o", "n", "g", "r", "i", "g", "h", "t", "a", "r", "r", "o", "w", " ", BS, "p", "m", " ", BS, "i", "n", "t", "_", "a", "^", "b">> /\ shorthands = test_shorthands) =>
         result = Ok(<<"-", "-", ">", " ", "=", "=", ">", " ", "+", "-", " ", "i", "n", "t", "_", "a", "^", "b">>)

\* the shorthand of floor.l has been put in before the floors were collapsed
C13_ReplacedBeforeFloorPass ==
  /\ Done
  /\ tex = <<BS, "l", "f", "l", "o", "o", "r", " ", "a", " ", BS, "r", "f", "l", "o", "o", "r", " ", BS, "p", "m", " ", "b">>
  /\ shorthands = <<SymbolShorthand(<<"f", "l", "o", "o", "r", ".", "l">>, <<"[">>)>>
  /\ tex2typst(tex) = Ok(<<"f", "l", "o", "o", "r", "(", "a", ")", " ", "p", "l", "u", "s", ".", "m", "i", "n", "u", "s", " ", "b">>)
  /\ result = Ok(<<"[", " ", "a", " ", "f", "l", "o", "o", "r", ".", "r", " ", "p", "l", "u", "s", ".", "m", "i", "n", "u", "s", " ", "b">>)

(***************************************************************************)
(* tex_tokenizer::tokenize, one turn of its loop at a time                 *)
(***************************************************************************)
\* the longest word of TokenizeLexemes an input is made of
MaxTokenizeLen == 4

TokenizeLexemes ==
  {cmd_text, <<"{">>, <<"}">>, <<" ">>, <<"a">>, <<BS>>, <<"$">>, <<"~">>, <<"é">>}

\* longer inputs: text blocks with escapes, the other commands with a block,
\* and what follows a ~ or a character outside ASCII
TokenizeSamples ==
  {<<BS, "t", "e", "x", "t", " ", " ", " ", " ", " ", " ", " ", " ", "{", "s", "o", "m", "e", " ", "t", "e", "x", "t", "}">>,
   <<BS, "t", "e", "x", "t", "{", "s", "o", "m", "e", " ", "t", "e", "x", "t", "}">>,
   <<BS, "t", "e", "x", "t", "{", BS, BS, "$", "}">>,
   <<BS, "t", "e", "x", "t", "{", "a", BS, BS, "}">>,
   <<BS, "t", "e", "x", "t", "{", BS, "{", "a", BS, "}", BS, "&", BS, "#", BS, "_", BS, "%", "}", "b">>,
   <<BS, "t", "e", "x", "t", "{", "{", "a", "}", "b", "}", "c">>,
   <<BS, "o", "p", "e", "r", "a", "t", "o", "r", "n", "a", "m", "e", "{", "a", "}">>,
   <<BS, "b", "e", "g", "i", "n", "{", "x", "}", "a", BS, "e", "n", "d", "{", "x", "}">>,
   <<BS, "e", "n", "d", " ", " ", "{", "x", "}">>,
   <<BS, "b", "e", "g", "i", "n">>,
   <<BS, "t", "e", "x", "t", " ", "a", "{", "b", "}">>,
   <<"~", "x">>,
   <<"~", "a", "b", "c", "d", "e", "f", "g", "h", "i", "j", "k", "l", "m", "n">>,
   <<"é", "a", BS, "t", "e", "x", "t", "{", "b", "}">>,
   <<"1", "2", "~", BS, "a", "l", "p", "h", "a", " ", "+", " ", "b">>,
   <<"a", "%", "b">>}

TokenizeInputs ==
  {Concat(w) : w \in SeqsUpTo(TokenizeLexemes, MaxTokenizeLen)} \cup TokenizeSamples

InitTokenize ==
  /\ pc = "tokenize_loop"
  /\ tex \in TokenizeInputs
  /\ PipelineBlank
  /\ ShorthandsBlank
  /\ MacrosBlank
  /\ DocumentBlank

\* tokenize: one turn of  while pos < latex.len()
TokenizeTurn ==
  /\ pc = "tokenize_loop"
  /\ pos < Len(tex)
  /\ LET t == tokenize_turn(tex, pos) IN
     IF t.k = "Ok"
     THEN /\ tokens' = tokens \o t.v
          /\ pos' = t.pos
          /\ UNCHANGED <<pc, result>>
     ELSE /\ Return(t)
          /\ UNCHANGED <<tokens, pos>>
  /\ UNCHANGED <<tex, shorthands, results, tex_tree, typst_tree, writer, macro_definitions,
                 custom_macros, registry, expanded_tokens, input, last_match, new>>

\* tokenize: the loop is over, Ok(tokens)
TokenizeReturn ==
  /\ pc = "tokenize_loop"
  /\ pos >= Len(tex)
  /\ result' = Ok(tokens)
  /\ pc' = "done"
  /\ UNCHANGED <<tex, shorthands, results, tokens, tex_tree, typst_tree, writer, macro_definitions,
                 custom_macros, registry, pos, expanded_tokens, input, last_match, new>>

NextTokenize == TokenizeTurn \/ TokenizeReturn

SpecTokenize == InitTokenize /\ [][NextTokenize]_vars

(***************************************************************************)
(* Claims about tokenize                                                   *)
(***************************************************************************)
\* the command with a text block that starts at p in s, None if there is none
TextCommandAt(s, p) ==
  IF \E c \in TextCommands :
       /\ StartsWithAt(s, p, c)
       /\ (p + Len(c) >= Len(s) \/ ~is_alphabetic(At(s, p + Len(c))))
  THEN Some(CHOOSE c \in TextCommands :
              /\ StartsWithAt(s, p, c)
              /\ (p + Len(c) >= Len(s) \/ ~is_alphabetic(At(s, p + Len(c)))))
  ELSE None

Escapable == {"{", "}", BS, "$", "&", "#", "_", "%"}

\* the position of the } that closes the block entered at depth 1, reading s
\* from i on, an escape being a backslash and the character after it; -1 if
\* the block is never closed
RECURSIVE ClosingBrace(_, _, _)
ClosingBrace(s, i, depth) ==
  IF i >= Len(s) THEN -1
  ELSE IF At(s, i) = BS /\ i + 1 < Len(s) /\ At(s, i + 1) \in Escapable
  THEN ClosingBrace(s, i + 2, depth)
  ELSE IF At(s, i) = "{" THEN ClosingBrace(s, i + 1, depth + 1)
  ELSE IF At(s, i) = "}" THEN (IF depth = 1 THEN i ELSE ClosingBrace(s, i + 1, depth - 1))
  ELSE ClosingBrace(s, i + 1, depth)

\* s with each escape replaced by the character it stands for
RECURSIVE Unescaped(_)
Unescaped(s) ==
  IF s = <<>> THEN <<>>
  ELSE IF Len(s) >= 2 /\ s[1] = BS /\ s[2] \in Escapable
  THEN <<s[2]>> \o Unescaped(SubSeq(s, 3, Len(s)))
  ELSE <<s[1]>> \o Unescaped(Tail(s))

\* what the turn at a command with a text block does, open being the
\* position after the command and the spaces that follow it
TextBlockTurn(command, open) ==
  IF open < Len(tex) /\ At(tex, open) = "{" /\ ClosingBrace(tex, open + 1, 1) # -1
  THEN /\ tokens' = tokens \o <<TexToken("Command", command),
                                TexToken("Control", <<"{">>),
                                TexToken("Text", Unescaped(Slice(tex, open + 1, ClosingBrace(tex, open + 1, 1)))),
                                TexToken("Control", <<"}">>)>>
       /\ pos' = ClosingBrace(tex, open + 1, 1) + 1
  ELSE (open >= Len(tex) \/ At(tex, open) = "{" \/ FindFrom(tex, open, <<"{">>) = -1)
         => result'.k = "Err"

\* C14: at \text, \operatorname, \begin or \end, spaces allowed before the {,
\* tokenize pushes the command, a Control {, one Text token holding the raw
\* contents of the block with the escapes \{ \} \\ \$ \& \# \_ \% replaced by
\* their characters, and a Control }; when no { follows or the block is
\* never closed, tokenize returns Err.
C14_TextBlock ==
  [][(pc = "tokenize_loop" /\ pos < Len(tex) /\ TextCommandAt(tex, pos) # None) =>
       TextBlockTurn(TextCommandAt(tex, pos)[1],
                     RunEnd(tex, pos + Len(TextCommandAt(tex, pos)[1]), {" "}))]_vars

\* the block {\\$} has been read as the text $
C14_EscapedBackslashLost ==
  /\ pc = "done"
  /\ tex = <<BS, "t", "e", "x", "t", "{", BS, BS, "$", "}">>
  /\ result = Ok(<<TexToken("Command", cmd_text), TexToken("Control", <<"{">>),
                   TexToken("Text", <<"$">>), TexToken("Control", <<"}">>)>>)

(***************************************************************************)
(* Claims about the arguments of an invocation                             *)
(***************************************************************************)
unary_definition == newcommand(<<BS, "u">>, <<"[", "1", "]">>, <<"(", "#", "1", ")">>) \o newcommand(<<BS, "a">>, <<>>, <<"x">>)

binary_definition == newcommand(<<BS, "v">>, <<"[", "2", "]">>, <<"#", "1", "^", "#", "2">>)

\* invocations with balanced arguments, each with the text its body becomes
\* when every argument is the span between its { and the matching }
ArgumentCases ==
  {[table |-> unary_definition, call |-> <<BS, "u", "{", "a", "}">>, body |-> <<"(", "a", ")">>],
   [table |-> unary_definition, call |-> <<BS, "u", "{", "}">>, body |-> <<"(", ")">>],
   [table |-> unary_definition, call |-> <<BS, "u", "{", "{", "a", "}", "b", "}">>, body |-> <<"(", "{", "a", "}", "b", ")">>],
   [table |-> unary_definition, call |-> <<BS, "u", "{", "a", BS, "}", "b", "}">>, body |-> <<"(", "a", BS, "}", "b", ")">>],
   [table |-> binary_definition, call |-> <<BS, "v", "{", "a", "}", "{", "b", "}">>, body |-> <<"a", "^", "b">>],
   [table |-> binary_definition, call |-> <<BS, "v", "{", "}", "{", "b", "}">>, body |-> <<"^", "b">>],
   [table |-> binary_definition, call |-> <<BS, "v", "{", "{", "a", "}", "}", "{", "b", "}">>, body |-> <<"{", "a", "}", "^", "b">>]}

\* inputs in which an argument is missing: the token after the command is
\* not {, there is no token after the command, a { is never closed, and the
\* second argument is not there
MissingArgumentCases ==
  {[table |-> unary_definition, tex |-> <<BS, "u", "+", "a">>, name |-> <<BS, "u">>],
   [table |-> unary_definition, tex |-> <<BS, "u">>, name |-> <<BS, "u">>],
   [table |-> unary_definition, tex |-> <<"a", "+", BS, "u">>, name |-> <<BS, "u">>],
   [table |-> unary_definition, tex |-> <<BS, "u", "{", "a">>, name |-> <<BS, "u">>],
   [table |-> binary_definition, tex |-> <<BS, "v", "{", "a", "}", "+", "a">>, name |-> <<BS, "v">>],
   [table |-> binary_definition, tex |-> <<BS, "v", "{", "a", "}">>, name |-> <<BS, "v">>]}

\* msg is a format and the command it is filled in with
Names(msg, name) == Len(msg) = 2 /\ msg[2] = name

\* C15: in a Unary or Binary invocation each argument is the span of tokens
\* between a { and the } that matches it by depth, the empty argument {} and
\* an argument that starts with { included, and an escaped \} closes
\* nothing; when the token after the command is not {, when there is no
\* token after the command, or when a { has no matching }, expand_macros
\* returns Err naming the command.
C15_ArgumentSpans ==
  /\ \A c \in ArgumentCases, b \in TextBefore, a \in TextAfter :
       (AfterExpansion /\ macro_definitions = c.table /\ tex = b \o c.call \o a) =>
         expanded_tokens = tokenize(b).v \o tokenize(c.body).v \o tokenize(a).v
  /\ \A c \in MissingArgumentCases :
       (AfterExpansion /\ macro_definitions = c.table /\ tex = c.tex) =>
         (Done /\ result.k = "Err" /\ Names(result.msg, c.name))

\* the call \u{{a}b} has been expanded with the argument {a and the tokens
\* b} left after it
C15_ArgumentCutShort ==
  /\ Expanded
  /\ macro_definitions = unary_definition
  /\ tex = <<BS, "u", "{", "{", "a", "}", "b", "}">>
  /\ expanded_tokens = tokenize(<<"(", "{", "a", ")", "b", "}">>).v

\* the token t stands for the characters of tex from p up to q
Covers(t, p, q) ==
  CASE t.t = "NoBreakSpace" -> q = p + 1 /\ At(tex, p) = "~"
    [] t.t = "Comment" -> q = p + 1 + Len(t.v) /\ Slice(tex, p, q) = <<"%">> \o t.v
    [] t.t = "Newline" -> q \in {p + 1, p + 2} /\ Slice(tex, p, q) \in {<<"\n">>, <<"\r">>, <<"\r", "\n">>}
    [] OTHER -> q = p + Len(t.v) /\ Slice(tex, p, q) = t.v

\* C16: tokenize is one scan from left to right that accounts for every
\* character: a turn pushes one token and moves the position by the number
\* of characters that token covers, so that a ~ gives one NoBreakSpace and
\* the character after it is tokenized as usual (~x gives NoBreakSpace,
\* Element x), and likewise for a character outside ASCII; and no character
\* other than a space between \text and its { is passed over.
C16_EveryCharacter ==
  [][(pc = "tokenize_loop" /\ pos < Len(tex) /\ tokens' # tokens) =>
       IF TextCommandAt(tex, pos) = None
       THEN /\ Len(tokens') = Len(tokens) + 1
            /\ Covers(tokens'[Len(tokens')], pos, pos')
       ELSE At(tex, RunEnd(tex, pos + Len(TextCommandAt(tex, pos)[1]), {" "})) = "{"]_vars

\* ~x has been tokenized as the one token NoBreakSpace
C16_CharacterAfterTildeLost ==
  /\ pc = "done"
  /\ tex = <<"~", "x">>
  /\ result = Ok(<<TexToken("NoBreakSpace", NOBREAK)>>)

(***************************************************************************)
(* Claims about environments                                               *)
(***************************************************************************)
\* the cell that holds the one element x
Cell(x) == TexNode("Ordgroup", <<>>, <<TexNode("Element", x, <<>>, NoData)>>, NoData)

\* the call has got past the parser, or has ended
AfterParse == pc \in {"convert", "serialize", "finalize", "done"}

\* C17: the grid of \begin{name} BODY \end{name} has one row for each segment
\* of BODY between \\ and in each row one cell for each segment between &, in
\* order, each cell holding the expressions of its segment, none missing:
\* \begin{aligned} a & b \\ c \end{aligned} gives the rows [[a], [b]] and
\* [[c]], and \begin{aligned}asd \end{aligned} converts to a s d.
C17_AlignedGrid ==
  /\ (AfterParse /\ tex = aligned_two_rows) =>
       /\ tex_tree # None
       /\ tex_tree[1].nt = "BeginEnd"
       /\ tex_tree[1].data.rows = <<<<Cell(<<"a">>), Cell(<<"b">>)>>, <<Cell(<<"c">>)>>>>
  /\ (Done /\ tex = test_cn_chars) => result = Ok(<<"a", " ", "s", " ", "d">>)

\* the grid of \begin{aligned} a & b \\ c \end{aligned} has an empty first
\* row and one empty cell in its second row
C17_CellsEmpty ==
  /\ AfterParse
  /\ tex = aligned_two_rows
  /\ tex_tree # None
  /\ tex_tree[1].data.rows = <<<<>>, <<EMPTY_GROUP>>>>

(***************************************************************************)
(* Claims about scripts                                                    *)
(***************************************************************************)
\* the SupSub node of the base a with the subscript x and the superscript y
BothScripts(x, y) ==
  TexNode("SupSub", <<>>, <<>>,
          [dk |-> "Supsub",
           base |-> TexNode("Element", <<"a">>, <<>>, NoData),
           sub |-> Some(TexNode("Element", x, <<>>, NoData)),
           sup |-> Some(TexNode("Element", y, <<>>, NoData))])

\* C18: parse_next_expr takes a subscript and a superscript in either order,
\* a_b^c and a^b_c each giving one SupSub with both, and reports an error
\* for a second superscript or a second subscript on the same base: a^b^c,
\* a_b_c and a prime after an explicit superscript are each rejected.
C18_ScriptsOncePerBase ==
  /\ (AfterParse /\ tex = <<"a", "_", "b", "^", "c">>) => tex_tree = Some(BothScripts(<<"b">>, <<"c">>))
  /\ (AfterParse /\ tex = <<"a", "^", "b", "_", "c">>) => tex_tree = Some(BothScripts(<<"c">>, <<"b">>))
  /\ (AfterParse /\ tex \in {<<"a", "^", "b", "^", "c">>, <<"a", "_", "b", "_", "c">>, <<"a", "^", "b", "'">>}) => (Done /\ result.k # "Ok")

\* a^b^c has been converted, the second superscript on an empty base
C18_SecondSuperscriptAccepted ==
  /\ Done
  /\ tex = <<"a", "^", "b", "^", "c">>
  /\ result = Ok(<<"a", "^", "b", " ", "\"", "\"", "^", "c">>)

(***************************************************************************)
(* Claims about \left and \right                                           *)
(***************************************************************************)
\* convert_tree has returned Ok and its tree is in typst_tree
Converted == pc \in {"serialize", "finalize", "done"} /\ typst_tree # None

\* n is a group of k nodes
GroupOf(n, k) == n.nt = "Group" /\ Len(n.args) = k

\* n is the call lr of one group of k nodes
LrOf(n, k) == n.nt = "FuncCall" /\ n.content = <<"l", "r">> /\ Len(n.args) = 1 /\ GroupOf(n.args[1], k)

\* the nodes of the tree of a \left ... \right, down to the group's members
NodesOf(n) ==
  {n} \cup Range(n.args) \cup UNION {Range(m.args) : m \in Range(n.args)}

\* C19: convert_tree turns a Leftright with one of the pairs ( ), [ ], \{ \},
\* \lfloor \rfloor, \lceil \rceil into a plain group with no lr; with . as
\* the right delimiter into a group without the right delimiter; with . as
\* the left delimiter into lr(...) without the left delimiter; with any
\* other pairing into lr(...); and the output holds no node for ., also for
\* \left. x \right. .
C19_Delimiters ==
  \A c \in LeftRightCases :
    (tex = c.tex /\ pc \in {"serialize", "finalize", "done"}) =>
      /\ typst_tree # None
      /\ c.kind = "pair" => GroupOf(typst_tree[1], 3)
      /\ c.kind = "right_dot" => GroupOf(typst_tree[1], 2)
      /\ c.kind = "left_dot" => LrOf(typst_tree[1], 2)
      /\ c.kind = "other" => LrOf(typst_tree[1], 3)
      /\ \A n \in NodesOf(typst_tree[1]) : n.content # <<".">>

\* the tree of \left. x \right. is the group of the atom . and x
C19_DotKept ==
  /\ Converted
  /\ tex = <<BS, "l", "e", "f", "t", ".", " ", "x", " ", BS, "r", "i", "g", "h", "t", ".">>
  /\ GroupOf(typst_tree[1], 2)
  /\ typst_tree[1].args[1].content = <<".">>

(***************************************************************************)
(* Claims about the soft space after a script                              *)
(***************************************************************************)
\* the Supsub nodes of the tree, at the top and among the members of the
\* top group
TopSupsubs ==
  {m \in {typst_tree[1]} \cup Range(typst_tree[1].args) : m.nt = "Supsub"}

\* the script of the Supsub m that is written last after a _ or a ^: the
\* superscript unless it is a prime, which is written first and without ^
LastScript(m) ==
  IF m.data.sup # None /\ ~(m.data.sup[1].nt = "Atom" /\ m.data.sup[1].content = <<"'">>)
  THEN m.data.sup
  ELSE m.data.sub

Brackets == {<<"(">>, <<")">>, <<"[">>, <<"]">>, <<"{">>, <<"}">>, <<"|">>}

\* the node is written without wrapping parentheses: it is no group, Supsub
\* or empty node, or it is a group that brings its own brackets
Bare(n) ==
  \/ n.nt \notin {"Group", "Supsub", "Empty"}
  \/ /\ n.nt = "Group"
     /\ n.args # <<>>
     /\ n.args[1].nt = "Atom" /\ n.args[1].content \in Brackets
     /\ n.args[Len(n.args)].nt = "Atom" /\ n.args[Len(n.args)].content \in Brackets

WordChars == LowerLetters \cup UpperLetters \cup Digits \cup {"."}

\* in text no script that is a bare word is directly followed by (
NoCallAfterScript(text) ==
  \A i \in 1..(Len(text) - 1) :
    (text[i] \in {"_", "^"} /\ text[i + 1] \in WordChars) =>
      (RunEnd(text, i, WordChars) >= Len(text) \/ At(text, RunEnd(text, i, WordChars)) # "(")

LastWritten(m) ==
  IF LastScript(m) # None THEN LastScript(m) ELSE m.data.sup

\* in text no prime is directly followed by (
NoCallAfterPrime(text) ==
  \A i \in 1..(Len(text) - 1) : text[i] = "'" => text[i + 1] # "("

atom_comma == TypstNode("Atom", <<",">>, <<>>, NoData)

atom_a == TypstNode("Atom", <<"a">>, <<>>, NoData)

typst_supsub(base, sub, sup) ==
  TypstNode("Supsub", <<>>, <<>>, [dk |-> "Supsub", base |-> base, sub |-> sub, sup |-> sup])

typst_array(nt, rows) == TypstNode(nt, <<>>, <<>>, [dk |-> "Array", rows |-> rows])

\* the trees built in one step from the trees of S
PairTrees(S) ==
  {TypstNode("Group", <<>>, <<x, y>>, NoData) : x \in S, y \in S}
    \cup {TypstNode("FuncCall", s_sqrt, <<x>>, NoData) : x \in S}
    \cup {TypstNode("FuncCall", s_root, <<x, y>>, NoData) : x \in S, y \in S}
    \cup {TypstNode("Fraction", <<>>, <<x, y>>, NoData) : x \in S, y \in S}
    \cup {typst_supsub(atom_a, Some(x), None) : x \in S}
    \cup {typst_array("Matrix", <<<<x, y>>, <<atom_a>>>>) : x \in S, y \in S}

\* the trees that hold one tree of S
WrapTrees(S) ==
  {TypstNode("Group", <<>>, <<x, atom_comma>>, NoData) : x \in S}
    \cup {TypstNode("FuncCall", s_sqrt, <<x>>, NoData) : x \in S}
    \cup {TypstNode("Fraction", <<>>, <<x, atom_a>>, NoData) : x \in S}
    \cup {typst_supsub(atom_a, None, Some(x)) : x \in S}
    \cup {set_options(typst_array("Matrix", <<<<x>>>>), <<<<s_delim, s_hnone>>>>) : x \in S}
    \cup {typst_array("Align", <<<<x, atom_comma>>>>) : x \in S}

\* a call of a fraction of a comma, and of a script inside a call
DeepTrees ==
  {TypstNode("FuncCall", s_sqrt,
     <<TypstNode("Fraction", <<>>, <<atom_comma, atom_a>>, NoData)>>, NoData),
   TypstNode("FuncCall", s_sqrt,
     <<TypstNode("FuncCall", s_sqrt, <<typst_supsub(atom_a, Some(atom_comma), None)>>, NoData),
       atom_comma>>, NoData)}

WriterTrees ==
  {atom_comma, atom_a}
    \cup PairTrees({atom_comma, atom_a})
    \cup WrapTrees(PairTrees({atom_comma, atom_a}))
    \cup DeepTrees
    \cup WrapTrees(DeepTrees)

\* a writer is made and serialize is called on a tree
InitWriter ==
  /\ pc = "serialize"
  /\ tex = <<>>
  /\ tokens = <<>>
  /\ results = <<>>
  /\ tex_tree = None
  /\ typst_tree \in {Some(t) : t \in WriterTrees}
  /\ writer = new_writer
  /\ result = Running
  /\ ShorthandsBlank
  /\ MacrosBlank
  /\ DocumentBlank

NextWriter == Serialize \/ Finalize

SpecWriter == InitWriter /\ [][NextWriter]_vars

\* the nodes directly under n: its args, its base and scripts, its cells
Children(n) ==
  n.args
    \o (IF n.data.dk = "Supsub" THEN <<n.data.base>> \o n.data.sub \o n.data.sup ELSE <<>>)
    \o (IF n.data.dk = "Array" THEN Concat(n.data.rows) ELSE <<>>)

RECURSIVE Subtrees(_)
Subtrees(n) == {n} \cup UNION {Subtrees(c) : c \in Range(Children(n))}

IsCall(n) == n.nt \in {"FuncCall", "Matrix"}

\* the commas that serialize itself puts between the arguments of n
Separators(n) ==
  IF n.nt = "FuncCall" THEN (IF n.args = <<>> THEN 0 ELSE Len(n.args) - 1)
  ELSE IF n.nt = "Matrix" THEN Len(Concat(n.data.rows)) - Len(n.data.rows)
  ELSE 0

\* the number of , atoms of n that lie inside a call (what = "inside"), that
\* lie outside every call (what = "outside"), and the number of separators
\* (what = "separator"); inside tells whether n itself lies in a call
RECURSIVE CommaCount(_, _, _), CommaCountAll(_, _, _)
CommaCount(n, inside, what) ==
  IF n.nt = "Atom"
  THEN (IF n.content = <<",">> /\ what = (IF inside THEN "inside" ELSE "outside") THEN 1 ELSE 0)
  ELSE (IF what = "separator" THEN Separators(n) ELSE 0)
         + CommaCountAll(Children(n), inside \/ IsCall(n), what)

CommaCountAll(ns, inside, what) ==
  IF ns = <<>> THEN 0
  ELSE CommaCount(Head(ns), inside, what) + CommaCountAll(Tail(ns), inside, what)

\* the number of tokens of the queue equal to token
Occurrences(queue, token) == Cardinality({i \in 1..Len(queue) : queue[i] = token})

\* the greatest call depth a writer starts a subtree with
MaxDepth == 2

writer_at_depth(d) == [new_writer EXCEPT !.inside_function_depth = d]

\* C21: inside the arguments of a FuncCall or Matrix, at any nesting depth
\* and also under a group, fraction or script of the call, a , atom is queued
\* as the symbol comma, and outside every call as the element , ; serialize
\* leaves the call counter where it found it, so the counter is 0 after a
\* successful top-level serialize and never below its starting value.
C21_CommaInsideCalls ==
  (pc \in {"finalize", "done"} /\ result.k \in {"Running", "Ok"}) =>
    /\ (pc = "finalize") =>
         /\ writer.inside_function_depth = 0
         /\ Occurrences(writer.queue, TypstToken("Symbol", s_comma))
              = CommaCount(typst_tree[1], FALSE, "inside")
         /\ Occurrences(writer.queue, TypstToken("Element", <<",">>))
              = CommaCount(typst_tree[1], FALSE, "outside")
                  + CommaCount(typst_tree[1], FALSE, "separator")
    /\ (pc = "done") => writer.inside_function_depth = 0
    /\ \A m \in Subtrees(typst_tree[1]) : \A d \in 0..MaxDepth :
         /\ serialize(writer_at_depth(d), m).k = "Ok"
         /\ serialize(writer_at_depth(d), m).v.inside_function_depth = d
         /\ Occurrences(serialize(writer_at_depth(d), m).v.queue, TypstToken("Symbol", s_comma))
              = CommaCount(m, d > 0, "inside")

\* a , under a fraction inside a call has been queued as comma, next to the
\* , outside the call
C21_CommaUnderFraction ==
  /\ pc = "finalize"
  /\ typst_tree = Some(TypstNode("Group", <<>>,
                    <<TypstNode("FuncCall", s_sqrt,
                        <<TypstNode("Fraction", <<>>, <<atom_comma, atom_a>>, NoData)>>, NoData),
                      atom_comma>>, NoData))
  /\ writer.inside_function_depth = 0
  /\ writer.queue = <<TypstToken("Symbol", s_sqrt), TYPST_LEFT_PARENTHESIS,
                      TypstToken("Symbol", s_comma), TypstToken("Symbol", <<"/">>),
                      TypstToken("Element", <<"a">>), TYPST_RIGHT_PARENTHESIS,
                      TypstToken("Element", <<",">>)>>

(***************************************************************************)
(* Claims about the passes of finalize                                     *)
(***************************************************************************)
\* in text open occurs and close occurs later on the same line
FollowedOnLine(text, open, close) ==
  \E i \in 0..Len(text) : \E j \in 0..Len(text) :
    /\ StartsWithAt(text, i, open)
    /\ i + Len(open) <= j
    /\ StartsWithAt(text, j, close)
    /\ \A k \in (i + 1)..j : text[k] # "\n"

\* C22: after the floor, ceil and round passes of finalize no delimiter pair
\* is left: the text has no floor.l followed on the same line by floor.r or
\* ceil.r and no ceil.l followed on the same line by ceil.r; nested pairs
\* are converted pair by pair, so that the nested floor gives
\* floor(floor(a)), \left\lfloor a \right\rceil gives round(a) and an empty
\* interior gives floor("").
C22_NoPairLeft ==
  /\ (Done /\ result.k = "Ok") =>
       /\ ~FollowedOnLine(result.v, s_floor_l, s_floor_r)
       /\ ~FollowedOnLine(result.v, s_floor_l, s_ceil_r)
       /\ ~FollowedOnLine(result.v, s_ceil_l, s_ceil_r)
  /\ (Done /\ tex = nested_floor) => result = Ok(<<"f", "l", "o", "o", "r", "(", "f", "l", "o", "o", "r", "(", "a", ")", ")">>)
  /\ (Done /\ tex = <<BS, "l", "e", "f", "t", BS, "l", "f", "l", "o", "o", "r", " ", "a", " ", BS, "r", "i", "g", "h", "t", BS, "r", "c", "e", "i", "l">>) => result = Ok(<<"r", "o", "u", "n", "d", "(", "a", ")">>)
  /\ (Done /\ tex = <<BS, "l", "e", "f", "t", BS, "l", "f", "l", "o", "o", "r", " ", BS, "r", "i", "g", "h", "t", BS, "r", "f", "l", "o", "o", "r">>) => result = Ok(<<"f", "l", "o", "o", "r", "(", "\"", "\"", ")">>)

\* the nested floor has been written with its inner floor.l and outer
\* floor.r left in the text
C22_InnerPairLeft ==
  /\ Done
  /\ tex = nested_floor
  /\ result = Ok(<<"f", "l", "o", "o", "r", "(", "f", "l", "o", "o", "r", ".", "l", " ", "a", ")", " ", "f", "l", "o", "o", "r", ".", "r">>)

(***************************************************************************)
(* Claims about the registry's two tables                                  *)
(***************************************************************************)
\* C23: after any sequence of registrations the definition expand_macros
\* applies to a command is the most recently registered one for that name,
\* and its arity kind is the kind get_command_type reports for the name,
\* also when a name was registered twice with different kinds.
C23_TablesAgree ==
  pc = "registry" =>
    \A name \in RegistryNames :
      find_macro(registry.custom_macros, name) # None =>
        /\ Some(find_macro(registry.custom_macros, name)[1].command_type) = LastRegistered(name)
        /\ Some(find_macro(registry.custom_macros, name)[1].command_type)
             = get_command_type(registry, name)

\* \a has been registered as a Symbol and then as a Unary command:
\* get_command_type reports Unary, and expand_macros applies the Symbol
\* definition to \a{b}, leaving the argument in place
C23_FirstDefinitionApplied ==
  /\ pc = "registry"
  /\ registry.custom_macros = <<CustomMacro(<<BS, "a">>, "Symbol", <<"x">>, None),
                                CustomMacro(<<BS, "a">>, "Unary", <<"x">>, None)>>
  /\ get_command_type(registry, <<BS, "a">>) = Some("Unary")
  /\ expand_macros(registry, tokenize(<<BS, "a", "{", "b", "}">>).v).k = "Ok"
  /\ token_values(expand_macros(registry, tokenize(<<BS, "a", "{", "b", "}">>).v).v) = <<"x", "{", "b", "}">>

(***************************************************************************)
(* Claims about argument substitution                                      *)
(***************************************************************************)
\* the call \i{argument} alone is being expanded with the table that
\* defines \i as its argument
IdentityCallOf(argument) ==
  /\ macro_definitions = identity_definition
  /\ tex = identity_call(argument)
  /\ pc = "expand"

\* C24: for the Unary macro whose body is #1, expand_macros applied to
\* \i{ARG} returns the token sequence of expand_macros applied to ARG, and
\* the text of the tokens of ARG tokenizes back to the same tokens, also when
\* ARG has a Comment token, a ~ or a Text block with escaped characters.
C24_SubstitutionKeepsTokens ==
  \A argument \in IdentityArguments :
    IdentityCallOf(argument) =>
      /\ tokenize(argument).k = "Ok"
      /\ expand_macros(registry, tokens) = expand_macros(registry, tokenize(argument).v)
      /\ tokenize(token_values(tokenize(argument).v)) = tokenize(argument)

\* the argument of \i was a comment and a newline; the expansion holds the
\* letter of the comment as an Element
C24_CommentBecomesElement ==
  /\ pc = "parse_expanded"
  /\ macro_definitions = identity_definition
  /\ tex = identity_call(<<"%", "c", "\n">>)
  /\ tokens = <<TexToken("Command", <<BS, "i">>), TexToken("Control", <<"{">>), TexToken("Comment", <<"c">>),
                TexToken("Newline", <<"\n">>), TexToken("Control", <<"}">>)>>
  /\ expanded_tokens = <<TexToken("Element", <<"c">>), TexToken("Newline", <<"\n">>)>>

(***************************************************************************)
(* Claims about the scan position of the parser                            *)
(***************************************************************************)
\* the number of Element nodes of the tree n
RECURSIVE ElementNodes(_), ElementNodesAll(_)
ElementNodes(n) ==
  IF n.nt = "Element" THEN 1 ELSE ElementNodesAll(Children(n))

ElementNodesAll(ns) ==
  IF ns = <<>> THEN 0 ELSE ElementNodes(Head(ns)) + ElementNodesAll(Tail(ns))

ElementTokens(ts) == Cardinality({i \in 1..Len(ts) : ts[i].t = "Element"})

\* tokens with no command but \frac and no square bracket: every Element
\* token of such an input is a leaf of its tree
PlainTokens(ts) ==
  \A i \in 1..Len(ts) :
    /\ ts[i].t = "Command" => ts[i].v = cmd_frac
    /\ ts[i].t \in {"Element", "Command", "Control", "Space"}
    /\ ts[i].v \notin {<<"[">>, <<"]">>, <<"&">>}

\* C25: parse_next_expr returns the position right after the last token it
\* consumed, so no token is skipped and none is parsed twice: the position
\* is never beyond the end of the tokens, and every Element token of the
\* input is one Element node of the tree; for a'_b'c the position after the
\* first expression is 5 and c is parsed.
C25_EveryTokenParsed ==
  /\ (pc = "parse" /\ parse_next_expr(tokens, 0).k = "Ok") =>
       parse_next_expr(tokens, 0).pos <= Len(tokens)
  /\ (pc = "convert" /\ PlainTokens(tokens)) =>
       ElementNodes(tex_tree[1]) = ElementTokens(tokens)
  /\ (pc = "parse" /\ tex = <<"a", "'", "_", "b", "'", "c">>) => parse_next_expr(tokens, 0).pos = 5

\* a'_b'c has been parsed into the single SupSub of a with no node for c
C25_TokenAfterPrimesSkipped ==
  /\ pc = "convert"
  /\ tex = <<"a", "'", "_", "b", "'", "c">>
  /\ Len(tokens) = 6
  /\ parse_next_expr(tokens, 0).pos = 6
  /\ tex_tree[1].nt = "SupSub"
  /\ tex_tree[1].data.base.content = <<"a">>
  /\ tex_tree[1].data.sub[1].content = <<"b">>
  /\ ElementNodes(tex_tree[1]) = 4

(***************************************************************************)
(* Claims about the two entry points                                       *)
(***************************************************************************)
\* the two calls end the same way: with the same text, or both with an error
SameResult(r, s) == r.k = s.k /\ (r.k = "Ok" => r.v = s.v)

\* C26: with an empty macro-definition string tex2typst_with_macros(s, "")
\* returns what tex2typst(s) returns, the same text or an error, also for
\* inputs with whitespace before or after a script mark.
C26_EmptyTableIsTex2typst ==
  (Done /\ macro_definitions = <<>>) => SameResult(result, tex2typst(tex))

\* a^ b has been converted with an empty macro table to a^ b, and
\* tex2typst gives a^b
C26_SpaceAfterScriptKept ==
  /\ Done
  /\ macro_definitions = <<>>
  /\ tex = <<"a", "^", " ", "b">>
  /\ tex2typst(tex) = Ok(<<"a", "^", "b">>)
  /\ result = Ok(<<"a", "^", " ", "b">>)

(***************************************************************************)
(* Claims about the scripts of \overbrace and \underbrace                  *)
(***************************************************************************)
\* the tree holds a node for the letter
HoldsLetter(n, letter) == \E m \in Subtrees(n) : m.content = letter

\* the tex tree is a SupSub with both scripts whose base is the command
BraceWithBothScripts(command) ==
  /\ tex_tree[1].nt = "SupSub"
  /\ tex_tree[1].data.base.nt = "UnaryFunc"
  /\ tex_tree[1].data.base.content = command
  /\ tex_tree[1].data.sup # None
  /\ tex_tree[1].data.sub # None

\* C27: convert_tree never discards a script: for a SupSub whose base is
\* \overbrace, or \underbrace, and that has both a sup and a sub, both
\* scripts are in the target tree; the two-argument call takes the place of
\* the script of the brace only.
C27_BothScriptsKept ==
  (Converted /\ tex \in BraceInputs) =>
    /\ (BraceWithBothScripts(cmd_overbrace) \/ BraceWithBothScripts(cmd_underbrace)) =>
         /\ HoldsLetter(typst_tree[1], <<"p">>)
         /\ HoldsLetter(typst_tree[1], <<"q">>)
    /\ tex = <<BS, "o", "v", "e", "r", "b", "r", "a", "c", "e", "{", "a", "}", "^", "{", "p", "}">> =>
         typst_tree[1] = TypstNode("FuncCall", s_overbrace,
                           <<TypstNode("Atom", <<"a">>, <<>>, NoData),
                             TypstNode("Atom", <<"p">>, <<>>, NoData)>>, NoData)
    /\ tex = <<BS, "u", "n", "d", "e", "r", "b", "r", "a", "c", "e", "{", "a", "}", "_", "{", "q", "}">> =>
         typst_tree[1] = TypstNode("FuncCall", s_underbrace,
                           <<TypstNode("Atom", <<"a">>, <<>>, NoData),
                             TypstNode("Atom", <<"q">>, <<>>, NoData)>>, NoData)

\* \overbrace{a}^{p}_{q} has been converted to overbrace(a, p), with no
\* node for q
C27_SubscriptDiscarded ==
  /\ Converted
  /\ tex = <<BS, "o", "v", "e", "r", "b", "r", "a", "c", "e", "{", "a", "}", "^", "{", "p", "}", "_", "{", "q", "}">>
  /\ BraceWithBothScripts(cmd_overbrace)
  /\ typst_tree[1] = TypstNode("FuncCall", s_overbrace,
                       <<TypstNode("Atom", <<"a">>, <<>>, NoData),
                         TypstNode("Atom", <<"p">>, <<>>, NoData)>>, NoData)
  /\ ~HoldsLetter(typst_tree[1], <<"q">>)

(***************************************************************************)
(* Claims about fractions in fractions                                     *)
(***************************************************************************)
\* the sides of fractions of the tree that are fractions themselves
FractionSides ==
  {m.args[i] : m \in {f \in Subtrees(typst_tree[1]) : f.nt = "Fraction"}, i \in 1..2}
    \cap {f \in Subtrees(typst_tree[1]) : f.nt = "Fraction"}

\* C28: a Fraction that is the numerator or the denominator of a Fraction is
\* delimited in the output, so that \frac{a}{\frac{b}{c}} and
\* \frac{\frac{a}{b}}{c} render to different texts.
C28_NestedFractionDelimited ==
  /\ Converted =>
       \A side \in FractionSides :
         /\ smart_parenthesis(new_writer, side).k = "Ok"
         /\ smart_parenthesis(new_writer, side).v.queue[1] = TYPST_LEFT_PARENTHESIS
  /\ (Done /\ tex = frac_in_denominator) =>
       /\ result.k = "Ok"
       /\ tex2typst(frac_in_numerator).k = "Ok"
       /\ result # tex2typst(frac_in_numerator)

\* \frac{a}{\frac{b}{c}} has been written as a/b/c, the text of
\* \frac{\frac{a}{b}}{c}
C28_SameTextBothWays ==
  /\ Done
  /\ tex = frac_in_denominator
  /\ typst_tree[1].nt = "Fraction"
  /\ typst_tree[1].args[2].nt = "Fraction"
  /\ result = Ok(<<"a", "/", "b", "/", "c">>)
  /\ tex2typst(frac_in_numerator) = Ok(<<"a", "/", "b", "/", "c">>)

(***************************************************************************)
(* expand_macros, one turn of its loop at a time                           *)
(***************************************************************************)
\* one turn of  while pos < tokens.len()  of expand_macros
ExpandTurn ==
  /\ pc = "expand"
  /\ pos < Len(tokens)
  /\ LET custom_macro == called_macro(registry.custom_macros, At(tokens, pos)) IN
     IF custom_macro = None
     THEN /\ expanded_tokens' = Append(expanded_tokens, At(tokens, pos))
          /\ pos' = pos + 1
          /\ UNCHANGED <<pc, result>>
     ELSE LET x == expand_command(registry.custom_macros, tokens, custom_macro[1], pos) IN
          IF x.k = "Ok"
          THEN /\ expanded_tokens' = expanded_tokens \o x.v
               /\ pos' = x.pos
               /\ UNCHANGED <<pc, result>>
          ELSE /\ Return(x)
               /\ UNCHANGED <<pos, expanded_tokens>>
  /\ UNCHANGED <<tex, shorthands, results, tokens, tex_tree, typst_tree, writer, macro_definitions,
                 custom_macros, registry, input, last_match, new>>

\* Ok(expanded_tokens)
ExpandReturn ==
  /\ pc = "expand"
  /\ pos >= Len(tokens)
  /\ result' = Ok(expanded_tokens)
  /\ pc' = "done"
  /\ UNCHANGED <<tex, shorthands, results, tokens, tex_tree, typst_tree, writer, macro_definitions,
                 custom_macros, registry, pos, expanded_tokens, input, last_match, new>>

NextExpand ==
  \/ TokenizeTex
  \/ ParseCustomMacros
  \/ RegisterCustomMacros
  \/ ExpandTurn
  \/ ExpandReturn

\* the call runs on: no step that can be taken is put off for ever.  A step
\* can be taken in every state but the last one and every step that changes
\* the variables is a step of NextExpand, so the weak fairness of NextExpand
\* is written with ~Done in the place of ENABLED <<NextExpand>>_vars and
\* <<TRUE>>_vars in the place of <<NextExpand>>_vars
SpecExpand ==
  /\ InitMacros
  /\ [][NextExpand]_vars
  /\ WF_vars(ExpandReturn)
  /\ (<>[](~Done) => []<><<TRUE>>_vars)

(***************************************************************************)
(* Claims about the termination of expand_macros                           *)
(***************************************************************************)
\* the argument spans expand_command can cut out of ts, from the token after
\* an opening bracket to the matching closing bracket, are shorter than ts
ShorterSpansIn(ts) ==
  \A p \in 1..Len(ts) :
    /\ find_matching_right_curly_bracket_token(ts, p) # None =>
         /\ find_matching_right_curly_bracket_token(ts, p)[1] >= p
         /\ find_matching_right_curly_bracket_token(ts, p)[1] < Len(ts)
    /\ position_right_square(ts, p) # None =>
         /\ position_right_square(ts, p)[1] >= p
         /\ position_right_square(ts, p)[1] < Len(ts)

\* the same for the tokens and for every span of them, which are the token
\* sequences the nested calls of expand_macros run on
ShorterSpans ==
  \A a \in 0..Len(tokens) : \A b \in a..Len(tokens) : ShorterSpansIn(Slice(tokens, a, b))

\* C29: expand_macros terminates on every token stream with every macro
\* table, a macro whose body calls itself included: every turn of the loop
\* ends the call or moves the position forward by at least one token, every
\* argument span is strictly shorter than the tokens it is cut from, and the
\* call ends.
C29_ExpandTerminates ==
  /\ [][(pc = "expand" /\ pc' = "expand") => pos' > pos]_vars
  /\ [](pc = "expand" => (ShorterSpans /\ pos <= Len(tokens)))
  /\ <>Done

\* \a, whose body is \a, has been expanded once and the call has returned
C29_SelfCallReturned ==
  /\ Done
  /\ macro_definitions = newcommand(<<BS, "a">>, <<>>, <<BS, "a">>)
  /\ tex = <<BS, "a", "+", "a">>
  /\ pos = 3
  /\ result = Ok(<<TexToken("Command", <<BS, "a">>), TexToken("Element", <<"+">>), TexToken("Element", <<"a">>)>>)

(***************************************************************************)
(* LatexParser::parse, one turn of its loop at a time                      *)
(***************************************************************************)
MaxTokens == 3

ParseLexemes ==
  {TexToken("Element", <<"a">>), TexToken("Element", <<"'">>), SUB_SYMBOL, SUP_SYMBOL,
   LEFT_CURLY_BRACKET, RIGHT_CURLY_BRACKET, LEFT_SQUARE_BRACKET, RIGHT_SQUARE_BRACKET,
   TexToken("Command", cmd_frac), TexToken("Command", cmd_sqrt), LEFT_COMMAND,
   RIGHT_COMMAND, TexToken("Element", <<"(">>), TexToken("Element", <<")">>),
   TexToken("Space", <<" ">>), TexToken("Control", <<"&">>),
   TexToken("Control", <<BS, BS>>)}

\* the token sequences parse is given: every short sequence of the lexemes,
\* and the tokens of the inputs of tex2typst
ParseInputs ==
  SeqsUpTo(ParseLexemes, MaxTokens)
    \cup {parser_tokenize(t).v : t \in {u \in TexInputs : parser_tokenize(u).k = "Ok"}}

InitParse ==
  /\ pc = "parse_loop"
  /\ tex = <<>>
  /\ tokens \in ParseInputs
  /\ results = <<>>
  /\ tex_tree = None
  /\ typst_tree = None
  /\ writer = new_writer
  /\ result = Running
  /\ ShorthandsBlank
  /\ MacrosBlank
  /\ DocumentBlank

\* while pos < tokens.len(): one turn of the loop
ParseTurn ==
  /\ pc = "parse_loop"
  /\ pos < Len(tokens)
  /\ LET r == parse_next_expr(tokens, pos) IN
     IF r.k # "Ok"
     THEN /\ Return(Fail(r))
          /\ UNCHANGED <<pos, results>>
     ELSE IF insignificant(r.v)
     THEN /\ pos' = r.pos
          /\ UNCHANGED <<pc, result, results>>
     ELSE IF r.v.nt = "Control" /\ r.v.content = <<"&">>
     THEN /\ Return(Panic(<<"Unexpected & outside of an alignment">>))
          /\ pos' = r.pos
          /\ UNCHANGED results
     ELSE /\ pos' = r.pos
          /\ results' = Append(results, r.v)
          /\ UNCHANGED <<pc, result>>
  /\ UNCHANGED <<tex, shorthands, tokens, tex_tree, typst_tree, writer, macro_definitions,
                 custom_macros, registry, expanded_tokens, input, last_match, new>>

\* the loop is left: the value of parse
ParseReturn ==
  /\ pc = "parse_loop"
  /\ pos >= Len(tokens)
  /\ tex_tree' = Some(parse_result(results).v)
  /\ result' = parse_result(results)
  /\ pc' = "done"
  /\ UNCHANGED <<tex, shorthands, results, tokens, typst_tree, writer, macro_definitions,
                 custom_macros, registry, pos, expanded_tokens, input, last_match, new>>

NextParse ==
  \/ ParseTurn
  \/ ParseReturn

\* the call runs on: no step that can be taken is put off for ever.  A step
\* can be taken in every state but the last one and every step that changes
\* the variables is a step of NextParse, so the weak fairness of NextParse is
\* written with ~Done in the place of ENABLED <<NextParse>>_vars and
\* <<TRUE>>_vars in the place of <<NextParse>>_vars
SpecParse ==
  /\ InitParse
  /\ [][NextParse]_vars
  /\ WF_vars(ParseReturn)
  /\ (<>[](~Done) => []<><<TRUE>>_vars)

(***************************************************************************)
(* Claims about the termination of LatexParser::parse                      *)
(***************************************************************************)
\* the slice of a brace group opened at p
GroupSlices(ts, p) ==
  LET c == find_closing_match(ts, p, LEFT_CURLY_BRACKET, RIGHT_CURLY_BRACKET) IN
  IF At(ts, p) = LEFT_CURLY_BRACKET /\ c # -1 THEN {Slice(ts, p + 1, c)} ELSE {}

\* the slice of the index of a \sqrt[...] at p
IndexSlices(ts, p) ==
  LET c == find_closing_match(ts, p + 1, LEFT_SQUARE_BRACKET, RIGHT_SQUARE_BRACKET) IN
  IF /\ At(ts, p) = TexToken("Command", cmd_sqrt)
     /\ p + 1 < Len(ts)
     /\ At(ts, p + 1) = LEFT_SQUARE_BRACKET
     /\ c # -1
  THEN {Slice(ts, p + 2, c)} ELSE {}

\* the slice between the delimiters of a \left at p
InteriorSlices(ts, p) ==
  LET pos1 == p + 1 + eat_whitespaces(ts, p + 1)
      idx == find_closing_right_command(ts, p)
      pos2 == idx + 1 + eat_whitespaces(ts, idx + 1)
  IN
  IF /\ At(ts, p) = LEFT_COMMAND
     /\ pos1 < Len(ts)
     /\ eat_parenthesis(ts, pos1) # None
     /\ idx # -1
     /\ pos2 < Len(ts)
     /\ eat_parenthesis(ts, pos2) # None
     /\ pos1 + 1 <= idx
  THEN {Slice(ts, pos1 + 1, idx)} ELSE {}

\* the body of the environment of a \begin at p
BodySlices(ts, p) ==
  LET expr_inside_start == p + 4 + eat_whitespaces(ts, p + 4)
      end_idx == find_closing_end_command(ts, p)
  IN
  IF /\ At(ts, p) = BEGIN_COMMAND
     /\ name_block_ok(ts, p + 1)
     /\ end_idx # -1
     /\ name_block_ok(ts, end_idx + 1)
     /\ At(ts, end_idx + 2).v = At(ts, p + 2).v
     /\ expr_inside_start <= end_idx
  THEN {pop_trailing_whitespace(Slice(ts, expr_inside_start, end_idx))} ELSE {}

\* the slices parse_next_expr_without_supsub(ts, p) hands to a nested parse
NestedSlices(ts, p) ==
  GroupSlices(ts, p) \cup IndexSlices(ts, p) \cup InteriorSlices(ts, p) \cup BodySlices(ts, p)

\* in ts every parse_next_expr that returns Ok returns a later position and
\* every nested parse gets fewer tokens than ts has
ProgressIn(ts) ==
  \A p \in 0..(Len(ts) - 1) :
    /\ parse_next_expr(ts, p).k = "Ok" => parse_next_expr(ts, p).pos > p
    /\ \A slice \in NestedSlices(ts, p) : Len(slice) < Len(ts)

\* the same in every run of tokens a nested parse can be given
Progress ==
  \A a \in 0..Len(tokens) : \A b \in a..Len(tokens) : ProgressIn(Slice(tokens, a, b))

\* C30: LatexParser::parse terminates on every token sequence: every turn of
\* its loop ends the call or moves the position forward, every parse_next_expr
\* that returns Ok returns a position after its start, also with an Empty base
\* in front of a script mark, every nested parse is given a strictly shorter
\* slice, and the call ends.
C30_ParseTerminates ==
  /\ [][(pc = "parse_loop" /\ pc' = "parse_loop") => pos' > pos]_vars
  /\ [](pc = "parse_loop" => Progress)
  /\ <>Done

\* `_a` has been parsed: the Empty base with the subscript a, in one turn
C30_EmptyBaseParsed ==
  /\ Done
  /\ tokens = <<SUB_SYMBOL, TexToken("Element", <<"a">>)>>
  /\ pos = 2
  /\ result = Ok(supsub_node(EMPTY_NODE, Some(TexNode("Element", <<"a">>, <<>>, NoData)), None, 0))

====
